---------------------------- MODULE Spec2Model ----------------------------
(***************************************************************************)
(* A model of the EREEA colony simulation: the grid map and its generator, *)
(* the A* path planner, the robots, the station and the per-tick           *)
(* orchestrator (Simulation::update).                                      *)
(*                                                                         *)
(* Coordinates are 0-based as in the source; a position is <<x, y>>.       *)
(* The map of Simulation::new is 50 x 30; the model runs the same code on  *)
(* a Width x Height map (the bounds below), with the station's hard-coded  *)
(* centre 50/2, 30/2 scaled along with it.                                 *)
(***************************************************************************)
EXTENDS Integers, Sequences, FiniteSets, TLC

\* ------------------------------------------------------------------ bounds
Width == 8
Height == 5
MaxTicks == 6
\* The ticks run on a map once Map::new has built it step by step.
MapTicks == 1
MaxRobots == 12
MaxStorage == 6
MaxAmount == 2
\* The rounds of the loops of Map::new: 3 paths, 20 energy cells,
\* 20 mineral cells and 5 scientific sites in the source.
NbPaths == 1
NbEnergy == 1
NbMinerals == 1
NbSites == 1

\* ------------------------------------------------------------- cell types
CellType == {"Empty", "Obstacle", "Energy", "Mineral", "ScientificSite"}
CellVisibility == {"Hidden", "Visible", "Explored"}
RobotModule == {"Exploration", "Drill", "EnergyCollector"}

Pos == (0 .. Width - 1) \X (0 .. Height - 1)
NoPos == <<-1, -1>>

center_x == Width \div 2
center_y == Height \div 2

abs_diff(a, b) == IF a >= b THEN a - b ELSE b - a

\* F applied to the value of v, with v evaluated once (a local binding
\* `let x = v;` of the source).
Bind(v, F(_)) == CHOOSE r \in {F(x) : x \in {v}} : TRUE

clamp(v, lo, hi) == IF v < lo THEN lo ELSE IF v > hi THEN hi ELSE v

\* Map::is_walkable: false out of bounds or on an Obstacle.
is_walkable(cs, x, y) ==
    IF x < 0 \/ y < 0 \/ x >= Width \/ y >= Height
    THEN FALSE
    ELSE cs[<<x, y>>] # "Obstacle"

\* ------------------------------------------------------------- visibility
\* update_visibility that discloses the whole bounding box.
update_visibility_whole_box(vis, cx, cy, radius) ==
    [p \in Pos |->
        IF /\ abs_diff(p[1], cx) <= radius
           /\ abs_diff(p[2], cy) <= radius
        THEN "Visible"
        ELSE vis[p]]

\* Map::update_visibility(cx, cy, radius): every in-bounds cell of the
\* bounding box whose squared distance to (cx, cy) is <= radius^2 becomes
\* Visible; nothing else changes.
update_visibility(vis, cx, cy, radius) ==
    [p \in Pos |->
        IF /\ abs_diff(p[1], cx) <= radius
           /\ abs_diff(p[2], cy) <= radius
           /\ (p[1] - cx) * (p[1] - cx) + (p[2] - cy) * (p[2] - cy)
                 <= radius * radius
        THEN "Visible"
        ELSE vis[p]]

\* A fade that also forgets: Visible -> Explored, Explored -> Hidden.
fade_visibility_forgets(vis) ==
    [p \in Pos |-> IF vis[p] = "Visible" THEN "Explored" ELSE "Hidden"]

\* Map::fade_visibility: Visible -> Explored, the rest untouched.
fade_visibility(vis) ==
    [p \in Pos |-> IF vis[p] = "Visible" THEN "Explored" ELSE vis[p]]

\* Visibility after Map::new: all Hidden, then a radius-3 disc at the centre.
initial_visibility ==
    update_visibility([p \in Pos |-> "Hidden"], center_x, center_y, 3)

\* ------------------------------------------------------------ pathfinding
\* Node of pathfinding.rs; Ord compares f_score only, reversed (min-heap).
Node(p, f, g) == [position |-> p, f_score |-> f, g_score |-> g]

\* Node::cmp as self.f_score.cmp(&other.f_score): a max-heap.
NodeLe_not_reversed(a, b) == a.f_score <= b.f_score

\* a <= b under Node::cmp (other.f_score.cmp(&self.f_score)).
NodeLe(a, b) == a.f_score >= b.f_score

manhattan_distance(a, b) == abs_diff(a[1], b[1]) + abs_diff(a[2], b[2])

\* BinaryHeap::sift_up(start, pos) with the hole's element e; data is the
\* heap's vector, index p of the source being data[p + 1].
RECURSIVE sift_up(_, _, _, _)
sift_up(data0, start, pos0, e) ==
    Bind(<<data0, pos0>>, LAMBDA a :
        LET data == a[1]
            pos == a[2]
            parent == (pos - 1) \div 2
        IN  IF pos > start
            THEN IF NodeLe(e, data[parent + 1])
                 THEN [data EXCEPT ![pos + 1] = e]
                 ELSE sift_up([data EXCEPT ![pos + 1] = data[parent + 1]],
                              start, parent, e)
            ELSE [data EXCEPT ![pos + 1] = e])

\* BinaryHeap::push
heap_push(data, n) == sift_up(Append(data, n), 0, Len(data), n)

\* BinaryHeap::sift_down_to_bottom(0) with the hole's element e.
RECURSIVE sift_down_to_bottom(_, _, _)
sift_down_to_bottom(data0, pos0, e) ==
    Bind(<<data0, pos0>>, LAMBDA a :
        LET data == a[1]
            pos == a[2]
            end == Len(data)
            child == 2 * pos + 1
        IN  IF end >= 2 /\ child <= end - 2
            THEN LET c == IF NodeLe(data[child + 1], data[child + 2])
                          THEN child + 1 ELSE child
                 IN  sift_down_to_bottom(
                        [data EXCEPT ![pos + 1] = data[c + 1]], c, e)
            ELSE IF child = end - 1
                 THEN sift_up([data EXCEPT ![pos + 1] = data[child + 1]],
                              0, child, e)
                 ELSE sift_up(data, 0, pos, e))

\* BinaryHeap::pop: the top node and the heap left.
heap_pop(data0) ==
    Bind(data0, LAMBDA data :
        LET last == data[Len(data)]
            rest == SubSeq(data, 1, Len(data) - 1)
        IN  IF rest = <<>>
            THEN [item |-> last, heap |-> rest]
            ELSE [item |-> rest[1],
                  heap |-> sift_down_to_bottom(rest, 0, last)])

\* get_neighbors: the walkable in-bounds cardinal neighbours, in the order
\* of `directions`.
directions == << <<0, 1>>, <<1, 0>>, <<0, -1>>, <<-1, 0>> >>

\* get_neighbors without the call of map.is_walkable.
get_neighbors_any_cell(cs, pos) ==
    LET cand == [i \in 1 .. 4 |->
                    <<pos[1] + directions[i][1], pos[2] + directions[i][2]>>]
    IN  SelectSeq(cand, LAMBDA q : q \in Pos)

\* get_neighbors with `directions` cut to its first three entries.
get_neighbors_no_west(cs, pos) ==
    LET cand == [i \in 1 .. 3 |->
                    <<pos[1] + directions[i][1], pos[2] + directions[i][2]>>]
    IN  SelectSeq(cand, LAMBDA q : is_walkable(cs, q[1], q[2]))

get_neighbors(cs, pos) ==
    LET cand == [i \in 1 .. 4 |->
                    <<pos[1] + directions[i][1], pos[2] + directions[i][2]>>]
    IN  SelectSeq(cand, LAMBDA q : is_walkable(cs, q[1], q[2]))

\* reconstruct_path: follow came_from back from current, then reverse.
RECURSIVE reconstruct_path(_, _)
reconstruct_path(came_from, current0) ==
    Bind(current0, LAMBDA current :
        IF came_from[current] = NoPos
        THEN <<current>>
        ELSE Append(reconstruct_path(came_from, came_from[current]),
                    current))

\* One pass of the inner `for neighbor in get_neighbors(..)` loop, from
\* neighbour k on; st holds open_set, came_from and g_scores.
RECURSIVE relax_neighbors(_, _, _, _, _)
relax_neighbors(st0, nbrs, k, cur, goal) ==
    Bind(st0, LAMBDA st :
        IF k > Len(nbrs)
        THEN st
        ELSE LET nb == nbrs[k]
                 tentative_g_score == st.g_scores[cur] + 1
             IN  IF \/ st.g_scores[nb] = -1
                    \/ tentative_g_score < st.g_scores[nb]
                 THEN relax_neighbors(
                        [st EXCEPT
                           !.open = heap_push(st.open,
                                      Node(nb,
                                           tentative_g_score
                                              + manhattan_distance(nb, goal),
                                           tentative_g_score)),
                           !.came_from = [st.came_from EXCEPT ![nb] = cur],
                           !.g_scores =
                              [st.g_scores EXCEPT ![nb] = tentative_g_score]],
                        nbrs, k + 1, cur, goal)
                 ELSE relax_neighbors(st, nbrs, k + 1, cur, goal))

\* The body of `while let Some(current) = open_set.pop()`, open_set not
\* empty: return the path at the goal, relax the neighbours otherwise.
a_star_step(cs, st, goal) ==
    Bind(heap_pop(st.open), LAMBDA popped :
        LET current == popped.item IN
        IF current.position = goal
        THEN [st EXCEPT !.open = popped.heap, !.returned = TRUE,
                        !.path = reconstruct_path(st.came_from,
                                                  current.position)]
        ELSE Bind(get_neighbors(cs, current.position), LAMBDA nbrs :
                relax_neighbors([st EXCEPT !.open = popped.heap],
                                nbrs, 1, current.position, goal)))

\* At most n passes of the while loop, stopping at the return; the passes
\* are run half by half. The loop left with open_set empty returns None,
\* the path <<>>.
RECURSIVE a_star_loop(_, _, _, _)
a_star_loop(cs, st0, goal, n) ==
    Bind(st0, LAMBDA st :
        IF st.returned \/ n = 0 THEN st
        ELSE IF st.open = <<>>
             THEN [st EXCEPT !.returned = TRUE, !.path = <<>>]
        ELSE IF n = 1 THEN a_star_step(cs, st, goal)
        ELSE a_star_loop(cs, a_star_loop(cs, st, goal, n \div 2), goal,
                         n - n \div 2))

\* A push follows a first visit or a strictly smaller g_score of a cell,
\* and a g_score is at most the number of cells: the passes of a loop that
\* ends are fewer than this.
max_passes == Width * Height * Width * Height

\* What find_path is taken to return when its loop has not ended after
\* max_passes passes.
NoReturn == <<NoPos>>

\* find_path(map, start, goal): Some(path) as the path, None as <<>>.
\* A map key absent from g_scores / came_from is -1 / NoPos here.
find_path(cs, start, goal) ==
    Bind(a_star_loop(cs,
            [open |-> <<Node(start, manhattan_distance(start, goal), 0)>>,
             came_from |-> [p \in Pos |-> NoPos],
             g_scores |-> [p \in Pos |-> IF p = start THEN 0 ELSE -1],
             returned |-> FALSE, path |-> <<>>],
            goal, max_passes),
         LAMBDA st : IF st.returned THEN st.path ELSE NoReturn)

\* ------------------------------------------------------------------- f32
\* IEEE-754 binary32 arithmetic of Station::determine_next_robot_type. A
\* value v is held as the integer v * 2^30; every value the function
\* computes is such an integer as long as a share count/total is 0 or at
\* least 2^-7, which MaxRobots guarantees.
RECURSIVE Pow2(_)
Pow2(n) == IF n = 0 THEN 1 ELSE 2 * Pow2(n - 1)

\* <<floor(a * 2^k / b), a * 2^k mod b>> by long division.
RECURSIVE LongDiv(_, _, _)
LongDiv(a, b, k) ==
    IF k = 0
    THEN <<a \div b, a % b>>
    ELSE Bind(LongDiv(a, b, k - 1), LAMBDA h :
            <<2 * h[1] + ((2 * h[2]) \div b), (2 * h[2]) % b>>)

\* The least n with a * 2^n >= b, for 0 < a <= b.
RECURSIVE Doublings(_, _)
Doublings(a, b) == IF a >= b THEN 0 ELSE 1 + Doublings(2 * a, b)

\* a as f32 / b as f32 for integers 0 <= a <= b, 0 < b: the quotient
\* rounded to a 24-bit significand, ties to even.
F32Div(a, b) ==
    IF a = 0 THEN 0
    ELSE Bind(Doublings(a, b), LAMBDA n :
            Bind(LongDiv(a, b, 23 + n), LAMBDA h :
                LET m == IF 2 * h[2] > b \/ (2 * h[2] = b /\ h[1] % 2 = 1)
                         THEN h[1] + 1 ELSE h[1]
                IN  m * Pow2(7 - n)))

\* The least s with mag < 2^(24 + s).
RECURSIVE ExcessBits(_)
ExcessBits(mag) == IF mag < 16777216 THEN 0 ELSE 1 + ExcessBits(mag \div 2)

\* An exact sum or difference rounded to f32 (ties to even).
F32Round(v0) ==
    Bind(v0, LAMBDA v :
        Bind(Pow2(ExcessBits(IF v < 0 THEN -v ELSE v)), LAMBDA unit :
            LET mag == IF v < 0 THEN -v ELSE v
                m == mag \div unit
                r == mag % unit
                up == 2 * r > unit \/ (2 * r = unit /\ m % 2 = 1)
                res == (IF up THEN m + 1 ELSE m) * unit
            IN  IF v < 0 THEN -res ELSE res))

F32Sub(a, b) == F32Round(a - b)
F32Add(a, b) == F32Round(a + b)

\* The f32 literals 0.4, 0.3, 0.3 and 0.2 (the nearest f32 to each).
TARGET_EXPLORER_PERCENT == F32Div(2, 5)
TARGET_DRILLER_PERCENT == F32Div(3, 10)
TARGET_ENERGY_PERCENT == F32Div(3, 10)
SCARCITY_BOOST == F32Div(1, 5)

\* ----------------------------------------------------------------- robot
\* Robot::new
Robot_new(id, x, y, modules) ==
    [id |-> id, x |-> x, y |-> y, modules |-> modules,
     has_data_to_share |-> FALSE,
     carried_energy |-> 0, carried_minerals |-> 0,
     carried_scientific_data |-> 0]

\* Vec::contains on a robot's modules.
contains(modules, m) == \E k \in DOMAIN modules : modules[k] = m

\* --------------------------------------------------------------- station
\* Station::new
Station_new ==
    [energy_storage |-> 0, minerals_storage |-> 0,
     scientific_data_count |-> 0, robot_counter |-> 5,
     explorer_count |-> 2, driller_count |-> 2,
     energy_collector_count |-> 1]

add_energy(st, amount) ==
    [st EXCEPT !.energy_storage = @ + amount]

\* add_minerals that stores one unit more than it is given.
add_minerals_one_more(st, amount) ==
    [st EXCEPT !.minerals_storage = @ + amount + 1]

add_minerals(st, amount) ==
    [st EXCEPT !.minerals_storage = @ + amount]

add_scientific_data(st, amount) ==
    [st EXCEPT !.scientific_data_count = @ + amount]

\* update_robot_counts with the arms of the match shifted by one: each
\* robot is counted under the next capability.
update_robot_counts_arms_shifted(st, robot_type) ==
    CASE robot_type = "Exploration" -> [st EXCEPT !.driller_count = @ + 1]
      [] robot_type = "Drill" ->
            [st EXCEPT !.energy_collector_count = @ + 1]
      [] robot_type = "EnergyCollector" ->
            [st EXCEPT !.explorer_count = @ + 1]

update_robot_counts(st, robot_type) ==
    CASE robot_type = "Exploration" -> [st EXCEPT !.explorer_count = @ + 1]
      [] robot_type = "Drill" -> [st EXCEPT !.driller_count = @ + 1]
      [] robot_type = "EnergyCollector" ->
            [st EXCEPT !.energy_collector_count = @ + 1]

\* The three resource-adjusted deficits computed by
\* determine_next_robot_type, as f32 values.
adjusted_deficits(st) ==
    LET total_robots == st.explorer_count + st.driller_count
                            + st.energy_collector_count
        explorer_percent == F32Div(st.explorer_count, total_robots)
        driller_percent == F32Div(st.driller_count, total_robots)
        energy_collector_percent ==
            F32Div(st.energy_collector_count, total_robots)
        explorer_deficit == F32Sub(TARGET_EXPLORER_PERCENT, explorer_percent)
        driller_deficit == F32Sub(TARGET_DRILLER_PERCENT, driller_percent)
        energy_deficit ==
            F32Sub(TARGET_ENERGY_PERCENT, energy_collector_percent)
    IN  [driller |-> IF st.minerals_storage < 5
                     THEN F32Add(driller_deficit, SCARCITY_BOOST)
                     ELSE driller_deficit,
         energy |-> IF st.energy_storage < 5
                    THEN F32Add(energy_deficit, SCARCITY_BOOST)
                    ELSE energy_deficit,
         explorer |-> IF st.scientific_data_count < 5
                      THEN F32Add(explorer_deficit, SCARCITY_BOOST)
                      ELSE explorer_deficit]

\* determine_next_robot_type with >= for >: the first capability of the
\* chain that reaches the maximum wins.
determine_next_robot_type_first_wins(st) ==
    Bind(adjusted_deficits(st), LAMBDA d :
        IF d.explorer >= d.driller /\ d.explorer >= d.energy
        THEN "Exploration"
        ELSE IF d.driller >= d.energy
             THEN "Drill"
             ELSE "EnergyCollector")

\* Station::determine_next_robot_type
determine_next_robot_type(st) ==
    Bind(adjusted_deficits(st), LAMBDA d :
        IF d.explorer > d.driller /\ d.explorer > d.energy
        THEN "Exploration"
        ELSE IF d.driller > d.energy
             THEN "Drill"
             ELSE "EnergyCollector")

\* get_center_x computed from a width that is not the map's.
get_center_x_of_wider_map == (Width + 2) \div 2

\* Station::get_center_x / get_center_y: the literals 50 / 2 and 30 / 2,
\* the centre of the map Simulation::new builds.
get_center_x == Width \div 2
get_center_y == Height \div 2

min_resources_needed == 1

resource_cost(robot_module) == 1

\* Station::try_create_robot: the station left and the Option<Robot>
\* returned, None being the robot NoRobot.
NoRobot == [id |-> -1]

\* try_create_robot that leaves minerals_storage unpaid.
try_create_robot_minerals_unpaid(st) ==
    IF /\ st.energy_storage >= min_resources_needed
       /\ st.minerals_storage >= min_resources_needed
       /\ st.scientific_data_count >= min_resources_needed
    THEN Bind(determine_next_robot_type(st), LAMBDA robot_module :
            LET cost == resource_cost(robot_module)
                paid == [st EXCEPT !.energy_storage = @ - cost,
                                   !.scientific_data_count = @ - cost]
                robot == Robot_new(st.robot_counter, get_center_x,
                                   get_center_y, <<robot_module>>)
            IN  [station |-> update_robot_counts(
                               [paid EXCEPT !.robot_counter = @ + 1],
                               robot_module),
                 robot |-> robot])
    ELSE [station |-> st, robot |-> NoRobot]

\* try_create_robot that takes the next id before it checks the storages.
try_create_robot_id_taken_first(st) ==
    IF /\ st.energy_storage >= min_resources_needed
       /\ st.minerals_storage >= min_resources_needed
       /\ st.scientific_data_count >= min_resources_needed
    THEN Bind(determine_next_robot_type(st), LAMBDA robot_module :
            LET cost == resource_cost(robot_module)
                paid == [st EXCEPT !.energy_storage = @ - cost,
                                   !.minerals_storage = @ - cost,
                                   !.scientific_data_count = @ - cost]
                robot == Robot_new(st.robot_counter, get_center_x,
                                   get_center_y, <<robot_module>>)
            IN  [station |-> update_robot_counts(
                               [paid EXCEPT !.robot_counter = @ + 1],
                               robot_module),
                 robot |-> robot])
    ELSE [station |-> [st EXCEPT !.robot_counter = @ + 1],
          robot |-> NoRobot]

\* try_create_robot that chooses the module after the storages are paid.
try_create_robot_chosen_after_payment(st) ==
    IF /\ st.energy_storage >= min_resources_needed
       /\ st.minerals_storage >= min_resources_needed
       /\ st.scientific_data_count >= min_resources_needed
    THEN LET paid == [st EXCEPT !.energy_storage = @ - 1,
                                !.minerals_storage = @ - 1,
                                !.scientific_data_count = @ - 1]
         IN  Bind(determine_next_robot_type(paid), LAMBDA robot_module :
                [station |-> update_robot_counts(
                               [paid EXCEPT !.robot_counter = @ + 1],
                               robot_module),
                 robot |-> Robot_new(st.robot_counter, get_center_x,
                                     get_center_y, <<robot_module>>)])
    ELSE [station |-> st, robot |-> NoRobot]

\* try_create_robot that keeps robot_counter as it was.
try_create_robot_counter_kept(st) ==
    IF /\ st.energy_storage >= min_resources_needed
       /\ st.minerals_storage >= min_resources_needed
       /\ st.scientific_data_count >= min_resources_needed
    THEN Bind(determine_next_robot_type(st), LAMBDA robot_module :
            LET cost == resource_cost(robot_module)
                paid == [st EXCEPT !.energy_storage = @ - cost,
                                   !.minerals_storage = @ - cost,
                                   !.scientific_data_count = @ - cost]
                robot == Robot_new(st.robot_counter, get_center_x,
                                   get_center_y, <<robot_module>>)
            IN  [station |-> update_robot_counts(paid, robot_module),
                 robot |-> robot])
    ELSE [station |-> st, robot |-> NoRobot]

try_create_robot(st) ==
    IF /\ st.energy_storage >= min_resources_needed
       /\ st.minerals_storage >= min_resources_needed
       /\ st.scientific_data_count >= min_resources_needed
    THEN Bind(determine_next_robot_type(st), LAMBDA robot_module :
            LET cost == resource_cost(robot_module)
                paid == [st EXCEPT !.energy_storage = @ - cost,
                                   !.minerals_storage = @ - cost,
                                   !.scientific_data_count = @ - cost]
                robot == Robot_new(st.robot_counter, get_center_x,
                                   get_center_y, <<robot_module>>)
            IN  [station |-> update_robot_counts(
                               [paid EXCEPT !.robot_counter = @ + 1],
                               robot_module),
                 robot |-> robot])
    ELSE [station |-> st, robot |-> NoRobot]

\* --------------------------------------------------------- robot methods
\* Robot::should_return_to_base
should_return_to_base(r) ==
    r.carried_energy > 0 \/ r.carried_minerals > 0
        \/ r.carried_scientific_data > 0

\* is_near_base that holds on the centre cell only.
is_near_base_center_only(r, cx, cy) == r.x = cx /\ r.y = cy

\* Robot::is_near_base
is_near_base(r, cx, cy) ==
    abs_diff(r.x, cx) <= 1 /\ abs_diff(r.y, cy) <= 1

\* What a method of Robot yields when a call it makes does not return.
Hung == [hung |-> TRUE]

\* move_towards whose greedy step is taken onto any cell.
move_towards_onto_any_cell(r, target_x, target_y, cs) ==
    Bind(find_path(cs, <<r.x, r.y>>, <<target_x, target_y>>), LAMBDA path :
    IF path = NoReturn THEN Hung
    ELSE IF path # <<>>
    THEN IF Len(path) > 1
         THEN [r EXCEPT !.x = path[2][1], !.y = path[2][2]]
         ELSE r
    ELSE LET dx == IF r.x < target_x THEN 1
                   ELSE IF r.x > target_x THEN -1 ELSE 0
             dy == IF r.y < target_y THEN 1
                   ELSE IF r.y > target_y THEN -1 ELSE 0
             new_x == clamp(r.x + dx, 0, Width - 1)
             new_y == clamp(r.y + dy, 0, Height - 1)
         IN  [r EXCEPT !.x = new_x, !.y = new_y])

\* Robot::move_towards: the first step of the A* path, or, with no path,
\* one greedy step taken only onto a walkable cell.
move_towards(r, target_x, target_y, cs) ==
    Bind(find_path(cs, <<r.x, r.y>>, <<target_x, target_y>>), LAMBDA path :
    IF path = NoReturn THEN Hung
    ELSE IF path # <<>>
    THEN IF Len(path) > 1
         THEN [r EXCEPT !.x = path[2][1], !.y = path[2][2]]
         ELSE r
    ELSE LET dx == IF r.x < target_x THEN 1
                   ELSE IF r.x > target_x THEN -1 ELSE 0
             dy == IF r.y < target_y THEN 1
                   ELSE IF r.y > target_y THEN -1 ELSE 0
             new_x == clamp(r.x + dx, 0, Width - 1)
             new_y == clamp(r.y + dy, 0, Height - 1)
         IN  IF is_walkable(cs, new_x, new_y)
             THEN [r EXCEPT !.x = new_x, !.y = new_y]
             ELSE r)

\* Robot::random_move that steps onto the clamped cell without asking
\* is_walkable.
random_move_onto_any_cell(r, cs, dx, dy) ==
    IF should_return_to_base(r)
    THEN IF ~is_near_base(r, center_x, center_y)
         THEN move_towards(r, center_x, center_y, cs)
         ELSE r
    ELSE [r EXCEPT !.x = clamp(r.x + dx, 0, Width - 1),
                   !.y = clamp(r.y + dy, 0, Height - 1)]

\* Robot::random_move with the two draws of rng.gen_range(-1..=1) as dx, dy.
random_move(r, cs, dx, dy) ==
    IF should_return_to_base(r)
    THEN IF ~is_near_base(r, center_x, center_y)
         THEN move_towards(r, center_x, center_y, cs)
         ELSE r
    ELSE LET new_x == clamp(r.x + dx, 0, Width - 1)
             new_y == clamp(r.y + dy, 0, Height - 1)
         IN  IF is_walkable(cs, new_x, new_y)
             THEN [r EXCEPT !.x = new_x, !.y = new_y]
             ELSE r

\* try_gather_resource that drills a Mineral cell with any module.
try_gather_resource_any_module_drills(r, cs) ==
    LET here == <<r.x, r.y>>
        none == [robot |-> r, cells |-> cs, gathered |-> FALSE]
    IN  IF r.x >= Width \/ r.y >= Height THEN none
        ELSE CASE cs[here] = "Energy" ->
                    IF contains(r.modules, "EnergyCollector")
                    THEN [robot |-> [r EXCEPT !.carried_energy = @ + 1],
                          cells |-> [cs EXCEPT ![here] = "Empty"],
                          gathered |-> TRUE]
                    ELSE none
               [] cs[here] = "Mineral" ->
                    [robot |-> [r EXCEPT !.carried_minerals = @ + 1],
                     cells |-> [cs EXCEPT ![here] = "Empty"],
                     gathered |-> TRUE]
               [] cs[here] = "ScientificSite" ->
                    IF contains(r.modules, "Exploration")
                    THEN [robot |->
                            [r EXCEPT !.carried_scientific_data = @ + 1],
                          cells |-> cs,
                          gathered |-> TRUE]
                    ELSE none
               [] OTHER -> none

\* try_gather_resource with the commented-out line of the ScientificSite
\* arm (`map.cells[self.y][self.x] = CellType::Empty`) put back.
try_gather_resource_site_consumed(r, cs) ==
    LET here == <<r.x, r.y>>
        none == [robot |-> r, cells |-> cs, gathered |-> FALSE]
    IN  IF r.x >= Width \/ r.y >= Height THEN none
        ELSE CASE cs[here] = "Energy" ->
                    IF contains(r.modules, "EnergyCollector")
                    THEN [robot |-> [r EXCEPT !.carried_energy = @ + 1],
                          cells |-> [cs EXCEPT ![here] = "Empty"],
                          gathered |-> TRUE]
                    ELSE none
               [] cs[here] = "Mineral" ->
                    IF contains(r.modules, "Drill")
                    THEN [robot |-> [r EXCEPT !.carried_minerals = @ + 1],
                          cells |-> [cs EXCEPT ![here] = "Empty"],
                          gathered |-> TRUE]
                    ELSE none
               [] cs[here] = "ScientificSite" ->
                    IF contains(r.modules, "Exploration")
                    THEN [robot |->
                            [r EXCEPT !.carried_scientific_data = @ + 1],
                          cells |-> [cs EXCEPT ![here] = "Empty"],
                          gathered |-> TRUE]
                    ELSE none
               [] OTHER -> none

\* Robot::try_gather_resource: the robot, the cells and the bool returned.
\* try_gather_resource that leaves the Energy or Mineral cell as it was.
try_gather_resource_cell_left(r, cs) ==
    LET here == <<r.x, r.y>>
        none == [robot |-> r, cells |-> cs, gathered |-> FALSE]
    IN  IF r.x >= Width \/ r.y >= Height THEN none
        ELSE CASE cs[here] = "Energy" ->
                    IF contains(r.modules, "EnergyCollector")
                    THEN [robot |-> [r EXCEPT !.carried_energy = @ + 1],
                          cells |-> cs,
                          gathered |-> TRUE]
                    ELSE none
               [] cs[here] = "Mineral" ->
                    IF contains(r.modules, "Drill")
                    THEN [robot |-> [r EXCEPT !.carried_minerals = @ + 1],
                          cells |-> cs,
                          gathered |-> TRUE]
                    ELSE none
               [] cs[here] = "ScientificSite" ->
                    IF contains(r.modules, "Exploration")
                    THEN [robot |->
                            [r EXCEPT !.carried_scientific_data = @ + 1],
                          cells |-> cs,
                          gathered |-> TRUE]
                    ELSE none
               [] OTHER -> none

try_gather_resource(r, cs) ==
    LET here == <<r.x, r.y>>
        none == [robot |-> r, cells |-> cs, gathered |-> FALSE]
    IN  IF r.x >= Width \/ r.y >= Height THEN none
        ELSE CASE cs[here] = "Energy" ->
                    IF contains(r.modules, "EnergyCollector")
                    THEN [robot |-> [r EXCEPT !.carried_energy = @ + 1],
                          cells |-> [cs EXCEPT ![here] = "Empty"],
                          gathered |-> TRUE]
                    ELSE none
               [] cs[here] = "Mineral" ->
                    IF contains(r.modules, "Drill")
                    THEN [robot |-> [r EXCEPT !.carried_minerals = @ + 1],
                          cells |-> [cs EXCEPT ![here] = "Empty"],
                          gathered |-> TRUE]
                    ELSE none
               [] cs[here] = "ScientificSite" ->
                    IF contains(r.modules, "Exploration")
                    THEN [robot |->
                            [r EXCEPT !.carried_scientific_data = @ + 1],
                          cells |-> cs,
                          gathered |-> TRUE]
                    ELSE none
               [] OTHER -> none

\* try_deposit_resources that empties the robot and stores no energy.
try_deposit_resources_energy_lost(r, st) ==
    IF is_near_base(r, center_x, center_y)
    THEN LET s2 == IF r.carried_minerals > 0
                   THEN add_minerals(st, r.carried_minerals) ELSE st
             s3 == IF r.carried_scientific_data > 0
                   THEN add_scientific_data(s2, r.carried_scientific_data)
                   ELSE s2
         IN  [robot |-> [r EXCEPT !.carried_energy = 0,
                                  !.carried_minerals = 0,
                                  !.carried_scientific_data = 0,
                                  !.has_data_to_share = FALSE],
              station |-> s3]
    ELSE [robot |-> r, station |-> st]

\* try_deposit_resources that leaves carried_minerals on the robot.
try_deposit_resources_minerals_kept(r, st) ==
    IF is_near_base(r, center_x, center_y)
    THEN LET s1 == IF r.carried_energy > 0
                   THEN add_energy(st, r.carried_energy) ELSE st
             s2 == IF r.carried_minerals > 0
                   THEN add_minerals(s1, r.carried_minerals) ELSE s1
             s3 == IF r.carried_scientific_data > 0
                   THEN add_scientific_data(s2, r.carried_scientific_data)
                   ELSE s2
         IN  [robot |-> [r EXCEPT !.carried_energy = 0,
                                  !.carried_scientific_data = 0,
                                  !.has_data_to_share = FALSE],
              station |-> s3]
    ELSE [robot |-> r, station |-> st]

\* Robot::try_deposit_resources: the robot and the station left.
try_deposit_resources(r, st) ==
    IF is_near_base(r, center_x, center_y)
    THEN LET s1 == IF r.carried_energy > 0
                   THEN add_energy(st, r.carried_energy) ELSE st
             s2 == IF r.carried_minerals > 0
                   THEN add_minerals(s1, r.carried_minerals) ELSE s1
             s3 == IF r.carried_scientific_data > 0
                   THEN add_scientific_data(s2, r.carried_scientific_data)
                   ELSE s2
         IN  [robot |-> [r EXCEPT !.carried_energy = 0,
                                  !.carried_minerals = 0,
                                  !.carried_scientific_data = 0,
                                  !.has_data_to_share = FALSE],
              station |-> s3]
    ELSE [robot |-> r, station |-> st]

\* ------------------------------------------------------- target searches
\* dx is the outer loop and dy the inner one: <<dx, dy>> is scanned before
\* <<ex, ey>> iff it is smaller in this order.
ScanLe(o, q) == o[1] < q[1] \/ (o[1] = q[1] /\ o[2] <= q[2])

\* One `while radius <= max_radius` round of find_unexplored_area: the
\* first cell of the annulus, in scan order, that has visibility `wanted`
\* and is walkable, or NoPos.
ring_search(robot_x, robot_y, cs, vis, radius, wanted) ==
    LET cell(o) == <<clamp(robot_x + o[1], 0, Width - 1),
                     clamp(robot_y + o[2], 0, Height - 1)>>
    IN  Bind({o \in (-radius .. radius) \X (-radius .. radius) :
                    /\ o[1] * o[1] + o[2] * o[2]
                          >= (radius - 2) * (radius - 2)
                    /\ o[1] * o[1] + o[2] * o[2] <= radius * radius
                    /\ vis[cell(o)] = wanted
                    /\ is_walkable(cs, cell(o)[1], cell(o)[2])},
             LAMBDA hits :
                IF hits = {} THEN NoPos
                ELSE cell(CHOOSE o \in hits : \A q \in hits : ScanLe(o, q)))

\* The radii 3, 6, 9 visited by `radius = 3; while radius <= 10; += 3`.
RECURSIVE rings_from(_, _, _, _, _, _)
rings_from(radius, robot_x, robot_y, cs, vis, wanted) ==
    IF radius > 10 THEN NoPos
    ELSE Bind(ring_search(robot_x, robot_y, cs, vis, radius, wanted),
              LAMBDA hit :
                IF hit # NoPos THEN hit
                ELSE rings_from(radius + 3, robot_x, robot_y, cs, vis,
                                wanted))

\* find_unexplored_area with the two passes exchanged: Explored first.
find_unexplored_area_explored_first(robot_x, robot_y, cs, vis) ==
    Bind(rings_from(3, robot_x, robot_y, cs, vis, "Explored"),
         LAMBDA explored :
            IF explored # NoPos THEN explored
            ELSE rings_from(3, robot_x, robot_y, cs, vis, "Hidden"))

\* find_unexplored_area: Some((x, y)) as <<x, y>>, None as NoPos.
find_unexplored_area(robot_x, robot_y, cs, vis) ==
    Bind(rings_from(3, robot_x, robot_y, cs, vis, "Hidden"), LAMBDA hidden :
        IF hidden # NoPos THEN hidden
        ELSE rings_from(3, robot_x, robot_y, cs, vis, "Explored"))

\* find_nearest_resource with `dist <= closest_dist`: the last cell in
\* row-major order among those at the least distance.
find_nearest_resource_last_wins(robot_x, robot_y, cs, vis, resource_type) ==
    LET dist(p) == (p[1] - robot_x) * (p[1] - robot_x)
                       + (p[2] - robot_y) * (p[2] - robot_y)
        rowmajor(p, q) == p[2] < q[2] \/ (p[2] = q[2] /\ p[1] <= q[1])
    IN  Bind({p \in Pos : vis[p] # "Hidden" /\ cs[p] = resource_type},
             LAMBDA hits :
                IF hits = {} THEN NoPos
                ELSE CHOOSE p \in hits :
                        \A q \in hits :
                            \/ dist(p) < dist(q)
                            \/ (dist(p) = dist(q) /\ rowmajor(q, p)))

\* find_nearest_resource: the non-Hidden cell of the type with the least
\* squared distance, the first in row-major order among equals.
find_nearest_resource(robot_x, robot_y, cs, vis, resource_type) ==
    LET dist(p) == (p[1] - robot_x) * (p[1] - robot_x)
                       + (p[2] - robot_y) * (p[2] - robot_y)
        rowmajor(p, q) == p[2] < q[2] \/ (p[2] = q[2] /\ p[1] <= q[1])
    IN  Bind({p \in Pos : vis[p] # "Hidden" /\ cs[p] = resource_type},
             LAMBDA hits :
                IF hits = {} THEN NoPos
                ELSE CHOOSE p \in hits :
                        \A q \in hits :
                            \/ dist(p) < dist(q)
                            \/ (dist(p) = dist(q) /\ rowmajor(p, q)))

\* ------------------------------------------------------------ scenarios
\* The maps the simulation is run on. A scenario gives its obstacles and
\* resources as offsets from the map centre; every other cell is Empty.
\* Each is a map Map::new can return: the 3x3 base area is Empty and no
\* resource lies within Chebyshev distance 1 of the centre.
ScenarioA ==
    [obstacles |-> {<<-2, -2>>, <<3, 2>>},
     energy |-> {<<2, 0>>, <<1, -2>>, <<2, 2>>},
     minerals |-> {<<0, 2>>, <<-1, 2>>, <<1, 2>>, <<-2, 2>>},
     sites |-> {<<-2, -1>>}]

\* No energy: the energy collector wanders from the first tick on.
ScenarioB ==
    [obstacles |-> {<<2, -2>>, <<-3, 1>>},
     energy |-> {},
     minerals |-> {<<2, 2>>, <<0, 2>>, <<-1, 2>>, <<2, 0>>},
     sites |-> {<<-2, -1>>}]

\* A walled-in Mineral at the west border, Hidden at first: the explorers
\* and then the drills target it and no route leads to it.
ScenarioC ==
    [obstacles |-> {<<-4, -1>>, <<-4, 1>>, <<-3, 0>>},
     energy |-> {<<2, 0>>, <<1, -2>>},
     minerals |-> {<<0, 2>>, <<-4, 0>>},
     sites |-> {}]

Scenarios == {ScenarioA, ScenarioB, ScenarioC}

scenario_cells(sc) ==
    [p \in Pos |->
        LET o == <<p[1] - center_x, p[2] - center_y>> IN
        IF o \in sc.obstacles THEN "Obstacle"
        ELSE IF o \in sc.energy THEN "Energy"
        ELSE IF o \in sc.minerals THEN "Mineral"
        ELSE IF o \in sc.sites THEN "ScientificSite"
        ELSE "Empty"]

\* ------------------------------------------------------- map generation
\* Perlin::new(seed).get([x * scale, y * scale]) > 0.2: the noise crate's
\* gradient noise, a fixed function of the seed and the cell, stood for by
\* a fixed mixing of the three numbers.
perlin_above_threshold(seed, x, y) ==
    ((x + 1) * (y + 2) * (seed + 3) + x * x + 7 * y + seed) % 10 >= 6

\* Lines 35 and 51-58: the grid of Empty cells, then the noise pass.
empty_cells == [p \in Pos |-> "Empty"]

noise_pass(seed) ==
    [p \in Pos |-> IF perlin_above_threshold(seed, p[1], p[2])
                   THEN "Obstacle" ELSE "Empty"]

\* Map::count_obstacle_neighbors: out-of-bounds neighbours count.
count_obstacle_neighbors(cs, x, y) ==
    Cardinality({d \in (-1 .. 1) \X (-1 .. 1) :
        /\ d # <<0, 0>>
        /\ IF /\ x + d[1] >= 0 /\ x + d[1] < Width
              /\ y + d[2] >= 0 /\ y + d[2] < Height
           THEN cs[<<x + d[1], y + d[2]>>] = "Obstacle"
           ELSE TRUE})

\* Lines 63-87: one round of the cellular automaton.
smooth(cs) ==
    [p \in Pos |->
        LET neighbors == count_obstacle_neighbors(cs, p[1], p[2]) IN
        IF cs[p] = "Obstacle"
        THEN IF neighbors >= 4 THEN "Obstacle" ELSE "Empty"
        ELSE IF neighbors >= 5 THEN "Obstacle" ELSE "Empty"]

iterations == 4

RECURSIVE smooth_rounds(_, _)
smooth_rounds(cs0, n) ==
    Bind(cs0, LAMBDA cs :
        IF n = 0 THEN cs ELSE smooth_rounds(smooth(cs), n - 1))

\* Map::create_path: the loop from <<x, y>> on.
RECURSIVE create_path(_, _, _, _, _)
create_path(cs0, x, y, end_x, end_y) ==
    Bind(cs0, LAMBDA cs :
        IF x # end_x \/ y # end_y
        THEN LET nx == IF x < end_x THEN x + 1
                       ELSE IF x > end_x THEN x - 1 ELSE x
                 ny == IF y < end_y THEN y + 1
                       ELSE IF y > end_y THEN y - 1 ELSE y
             IN  create_path(
                    [p \in Pos |->
                        IF p = <<x, y>> THEN "Empty"
                        ELSE IF /\ abs_diff(p[1], nx) <= 1
                                /\ abs_diff(p[2], ny) <= 1
                             THEN "Empty"
                             ELSE cs[p]],
                    nx, ny, end_x, end_y)
        ELSE cs)

\* clear_base_area that clears the centre cell alone.
clear_base_area_center_only(cs) ==
    [p \in Pos |->
        IF p = <<Width \div 2, Height \div 2>> THEN "Empty" ELSE cs[p]]

\* Map::clear_base_area
clear_base_area(cs) ==
    [p \in Pos |->
        IF /\ abs_diff(p[1], Width \div 2) <= 1
           /\ abs_diff(p[2], Height \div 2) <= 1
        THEN "Empty" ELSE cs[p]]

\* is_valid_position without the test of the cell: any cell away from
\* the base is accepted.
is_valid_position_any_cell(x, y, cs) ==
    LET dx == abs_diff(x, Width \div 2)
        dy == abs_diff(y, Height \div 2)
    IN  IF dx <= 1 /\ dy <= 1 THEN FALSE ELSE TRUE

\* The closure is_valid_position of Map::place_resources.
is_valid_position(x, y, cs) ==
    LET dx == abs_diff(x, Width \div 2)
        dy == abs_diff(y, Height \div 2)
    IN  IF dx <= 1 /\ dy <= 1 THEN FALSE ELSE cs[<<x, y>>] = "Empty"

\* What rand::thread_rng() can return for gen_range(0..width) and
\* gen_range(0..height): a generator seeded by the operating system, so
\* any value of the range, here any of a few of them: the corners of the
\* map, and for the run followed by ticks the map centre too.
RngX == {0, Width - 1}
RngY == {0, Height - 1}
corner_draws == RngX \X RngY
corner_and_center_draws == corner_draws \cup {<<center_x, center_y>>}

tries == 10

\* The inner `for _ in 0..10` of place_resources with n tries left: the
\* grids it can leave. The first valid draw is taken; an invalid draw
\* leaves the grid to the next try.
RECURSIVE place_one(_, _, _, _)
place_one(cs, resource, n, draws) ==
    IF n = 0 THEN {cs}
    ELSE {[cs EXCEPT ![d] = resource] :
            d \in {d \in draws : is_valid_position(d[1], d[2], cs)}}
         \cup (IF \E d \in draws : ~is_valid_position(d[1], d[2], cs)
               THEN place_one(cs, resource, n - 1, draws)
               ELSE {})

\* ---------------------------------------------------------------- state
VARIABLES
    cells,        \* Map::cells
    visibility,   \* Map::visibility
    station,      \* Simulation::station
    robots,       \* Simulation::robots
    events,       \* the unbounded channel of SimulationEvent
    stats,        \* Simulation::stats
    pc,           \* the phase of Simulation::update about to run
    idx,          \* the robot loop's index i (1-based)
    tick0,        \* history: robots, station and cells when the tick began
    last_call,    \* history: the latest try_create_robot call
    gen,          \* Map::new: its position, its config.seed, its loop
                  \* counter, and the cells an earlier call returned
    log,          \* history: the events process_events received in the
                  \* latest drain, the drains of the tick, and the counts
                  \* of the events sent so far
    query         \* the latest call of find_path and what it returned

vars == <<cells, visibility, station, robots, events, stats, pc, idx,
          tick0, last_call, gen, log, query>>

\* SimulationStats::default()
SimulationStats_default ==
    [total_energy_collected |-> 0, total_minerals_collected |-> 0,
     total_scientific_data_collected |-> 0, robots_created |-> 0,
     simulation_step |-> 0]

\* The roster of Simulation::new.
initial_robots ==
    << Robot_new(0, center_x, center_y, <<"Exploration">>),
       Robot_new(1, center_x, center_y, <<"Exploration">>),
       Robot_new(2, center_x, center_y, <<"Drill">>),
       Robot_new(3, center_x, center_y, <<"Drill">>),
       Robot_new(4, center_x, center_y, <<"EnergyCollector">>) >>

\* The history of try_create_robot calls: seq flips at every call, robot
\* is what the latest call returned, fresh tells that no Station method
\* has changed the Station since, after_success that the call came right
\* after a successful one, with no other method in between, and successes
\* counts the calls that returned a robot.
no_call ==
    [called |-> FALSE, seq |-> 0, robot |-> NoRobot, fresh |-> FALSE,
     after_success |-> FALSE, successes |-> 0]

record_call(prev, returned) ==
    [called |-> TRUE, seq |-> 1 - prev.seq, robot |-> returned,
     fresh |-> TRUE,
     after_success |-> prev.called /\ prev.fresh /\ prev.robot # NoRobot,
     successes |-> prev.successes + (IF returned # NoRobot THEN 1 ELSE 0)]

\* No event sent or received yet.
no_log ==
    [received |-> <<>>, drains |-> 0,
     sent |-> [Energy |-> 0, Mineral |-> 0, ScientificData |-> 0,
               RobotCreated |-> 0]]

\* The counts of the events sent, with event e sent.
count_sent(l, e) ==
    IF e.event = "RobotCreated"
    THEN [l EXCEPT !.sent.RobotCreated = @ + 1]
    ELSE [l EXCEPT !.sent[e.resource_type] = @ + e.amount]

\* find_path not called yet.
no_query == [called |-> FALSE, start |-> NoPos, goal |-> NoPos,
             path |-> <<>>]

\* Map::new has returned.
map_built == [pc |-> "built", seed |-> 42, left |-> 0, run |-> 1,
              first |-> <<>>, draws |-> {}, ticks |-> MaxTicks]

\* Simulation::new
Init ==
    /\ cells \in {scenario_cells(sc) : sc \in Scenarios}
    /\ visibility = initial_visibility
    /\ station = Station_new
    /\ robots = initial_robots
    /\ events = <<>>
    /\ stats = SimulationStats_default
    /\ pc = "fade"
    /\ idx = 0
    /\ tick0 = [robots |-> initial_robots, station |-> Station_new,
               cells |-> cells]
    /\ last_call = no_call
    /\ gen = map_built
    /\ log = no_log
    /\ query = no_query

\* ------------------------------------------------- Simulation::update
\* The entry of a tick without line 91's fade.
FadeVisibility_no_fade ==
    /\ pc = "fade"
    /\ gen.pc = "built"
    /\ stats.simulation_step < gen.ticks
    /\ tick0' = [robots |-> robots, station |-> station, cells |-> cells]
    /\ log' = [log EXCEPT !.received = <<>>, !.drains = 0]
    /\ idx' = 1
    /\ pc' = "robots"
    /\ UNCHANGED <<gen, query, cells, station, robots, events, stats,
                   last_call, visibility>>

\* Line 91: fade, then enter the robot loop.
FadeVisibility ==
    /\ pc = "fade"
    /\ gen.pc = "built"
    /\ stats.simulation_step < gen.ticks
    /\ visibility' = fade_visibility(visibility)
    /\ tick0' = [robots |-> robots, station |-> station, cells |-> cells]
    /\ log' = [log EXCEPT !.received = <<>>, !.drains = 0]
    /\ idx' = 1
    /\ pc' = "robots"
    /\ UNCHANGED <<gen, query, cells, station, robots, events, stats,
                   last_call>>

\* Lines 97-139 without the return to the base: a loaded robot seeks as
\* an empty one does.
specialized_step_never_returns(r, cs, vis) ==
    LET stay == [specialized_move |-> FALSE, robot |-> r]
        toward(target) ==
            Bind(target, LAMBDA t :
                IF t # NoPos
                THEN [specialized_move |-> TRUE,
                      robot |-> move_towards(r, t[1], t[2], cs)]
                ELSE stay)
    IN  IF contains(r.modules, "Exploration")
        THEN toward(find_unexplored_area(r.x, r.y, cs, vis))
        ELSE IF contains(r.modules, "Drill")
             THEN toward(find_nearest_resource(r.x, r.y, cs, vis, "Mineral"))
        ELSE IF contains(r.modules, "EnergyCollector")
             THEN toward(find_nearest_resource(r.x, r.y, cs, vis, "Energy"))
        ELSE stay

\* Lines 97-139: the target chosen for robot r and the move made toward
\* it; specialized_move tells whether one was made.
specialized_step(r, cs, vis) ==
    LET stay == [specialized_move |-> FALSE, robot |-> r]
        toward(target) ==
            Bind(target, LAMBDA t :
                IF t # NoPos
                THEN [specialized_move |-> TRUE,
                      robot |-> move_towards(r, t[1], t[2], cs)]
                ELSE stay)
    IN  IF should_return_to_base(r)
        THEN IF ~is_near_base(r, center_x, center_y)
             THEN toward(<<center_x, center_y>>)
             ELSE stay
        ELSE IF contains(r.modules, "Exploration")
             THEN toward(find_unexplored_area(r.x, r.y, cs, vis))
        ELSE IF contains(r.modules, "Drill")
             THEN toward(find_nearest_resource(r.x, r.y, cs, vis, "Mineral"))
        ELSE IF contains(r.modules, "EnergyCollector")
             THEN toward(find_nearest_resource(r.x, r.y, cs, vis, "Energy"))
        ELSE stay

\* Lines 146-152: the type reported for a pickup.
collected_type(r) ==
    IF r.carried_energy > 0 THEN "Energy"
    ELSE IF r.carried_minerals > 0 THEN "Mineral"
    ELSE "ScientificData"

ResourceCollected(resource_type, amount) ==
    [event |-> "ResourceCollected", resource_type |-> resource_type,
     amount |-> amount, id |-> -1]

RobotCreated(id) ==
    [event |-> "RobotCreated", resource_type |-> "None", amount |-> 0,
     id |-> id]

\* Lines 145-160: pickup by the moved robot and the event sent; they are
\* reached only if the move has returned.
gather_and_report(moved) ==
    /\ moved # Hung
    /\ \E g \in {try_gather_resource(moved, cells)} :
        /\ robots' = [robots EXCEPT ![idx] = g.robot]
        /\ cells' = g.cells
        /\ events' = IF g.gathered
                     THEN Append(events,
                            ResourceCollected(collected_type(g.robot), 1))
                     ELSE events
        /\ log' = IF g.gathered
                  THEN count_sent(log,
                            ResourceCollected(collected_type(g.robot), 1))
                  ELSE log

\* The pass of the robot loop without line 95's update_visibility.
RobotTurn_no_refresh ==
    /\ pc = "robots"
    /\ \E sm \in {specialized_step(robots[idx], cells, visibility)} :
           /\ visibility' = visibility
           /\ IF sm.specialized_move
              THEN gather_and_report(sm.robot)
              ELSE \E dx \in -1 .. 1, dy \in -1 .. 1 :
                      gather_and_report(
                          random_move(robots[idx], cells, dx, dy))
    /\ IF idx < Len(robots)
       THEN idx' = idx + 1 /\ pc' = "robots"
       ELSE idx' = 0 /\ pc' = "deposit"
    /\ UNCHANGED <<gen, query, station, stats, tick0, last_call>>

\* Lines 93-161: one pass of the robot loop, for robot idx.
RobotTurn ==
    /\ pc = "robots"
    /\ \E vis \in {update_visibility(visibility,
                                       robots[idx].x, robots[idx].y, 2)} :
        \E sm \in {specialized_step(robots[idx], cells, vis)} :
           /\ visibility' = vis
           /\ IF sm.specialized_move
              THEN gather_and_report(sm.robot)
              ELSE \E dx \in -1 .. 1, dy \in -1 .. 1 :
                      gather_and_report(
                          random_move(robots[idx], cells, dx, dy))
    /\ IF idx < Len(robots)
       THEN idx' = idx + 1 /\ pc' = "robots"
       ELSE idx' = 0 /\ pc' = "deposit"
    /\ UNCHANGED <<gen, query, station, stats, tick0, last_call>>

\* The loop of lines 166-168 from robot k on.
RECURSIVE deposit_all(_, _, _)
deposit_all(rs0, st0, k) ==
    Bind(<<rs0, st0>>, LAMBDA a :
        LET rs == a[1]
            st == a[2]
        IN  IF k > Len(rs)
            THEN [robots |-> rs, station |-> st]
            ELSE Bind(try_deposit_resources(rs[k], st), LAMBDA d :
                    deposit_all([rs EXCEPT ![k] = d.robot], d.station,
                                k + 1)))

\* Lines 163-168 with the deposit loop left out: the spawn attempt runs
\* on the storages of before the deposits.
DepositPhase_no_deposits ==
    /\ pc = "deposit"
    /\ visibility' = update_visibility(visibility, center_x, center_y, 3)
    /\ pc' = "spawn"
    /\ UNCHANGED <<gen, query, log, cells, events, stats, idx, tick0,
                   robots, station, last_call>>

\* Lines 163-168: the base's visibility, then every robot's deposit.
DepositPhase ==
    /\ pc = "deposit"
    /\ visibility' = update_visibility(visibility, center_x, center_y, 3)
    /\ \E d \in {deposit_all(robots, station, 1)} :
       /\ robots' = d.robots
       /\ station' = d.station
       /\ last_call' = [last_call EXCEPT
                            !.fresh = @ /\ d.station = station]
    /\ pc' = "spawn"
    /\ UNCHANGED <<gen, query, log, cells, events, stats, idx, tick0>>

\* The spawn attempt without `self.stats.robots_created += 1`.
SpawnPhase_not_counted ==
    /\ pc = "spawn"
    /\ \E res \in {try_create_robot(station)} :
       /\ station' = res.station
       /\ last_call' = record_call(last_call, res.robot)
       /\ IF res.robot # NoRobot
          THEN /\ events' = Append(events, RobotCreated(res.robot.id))
               /\ log' = count_sent(log, RobotCreated(res.robot.id))
               /\ robots' = Append(robots, res.robot)
          ELSE UNCHANGED <<events, log, robots>>
    /\ pc' = "events"
    /\ UNCHANGED <<gen, query, cells, visibility, idx, tick0, stats>>

\* Lines 170-178: the spawn attempt.
SpawnPhase ==
    /\ pc = "spawn"
    /\ \E res \in {try_create_robot(station)} :
       /\ station' = res.station
       /\ last_call' = record_call(last_call, res.robot)
       /\ IF res.robot # NoRobot
          THEN /\ events' = Append(events, RobotCreated(res.robot.id))
               /\ log' = count_sent(log, RobotCreated(res.robot.id))
               /\ robots' = Append(robots, res.robot)
               /\ stats' = [stats EXCEPT !.robots_created = @ + 1]
          ELSE UNCHANGED <<events, log, robots, stats>>
    /\ pc' = "events"
    /\ UNCHANGED <<gen, query, cells, visibility, idx, tick0>>

\* The match with the Mineral arm adding to total_energy_collected.
apply_event_minerals_as_energy(st, e) ==
    IF e.event = "ResourceCollected"
    THEN CASE e.resource_type = "Energy" ->
                [st EXCEPT !.total_energy_collected = @ + e.amount]
           [] e.resource_type = "Mineral" ->
                [st EXCEPT !.total_energy_collected = @ + e.amount]
           [] e.resource_type = "ScientificData" ->
                [st EXCEPT !.total_scientific_data_collected = @ + e.amount]
    ELSE st

\* The match of process_events on one received event.
apply_event(st, e) ==
    IF e.event = "ResourceCollected"
    THEN CASE e.resource_type = "Energy" ->
                [st EXCEPT !.total_energy_collected = @ + e.amount]
           [] e.resource_type = "Mineral" ->
                [st EXCEPT !.total_minerals_collected = @ + e.amount]
           [] e.resource_type = "ScientificData" ->
                [st EXCEPT !.total_scientific_data_collected = @ + e.amount]
    ELSE st

\* process_events with `if let` for `while let`: one event per call.
drain_first_only(d0) ==
    Bind(d0, LAMBDA d :
        IF d.queue = <<>> THEN d
        ELSE [stats |-> apply_event(d.stats, Head(d.queue)),
              received |-> Append(d.received, Head(d.queue)),
              queue |-> Tail(d.queue)])

\* process_events: `while let Ok(event) = receiver.try_recv()`, try_recv
\* taking the oldest event of the channel; d = [stats, received, queue],
\* queue being the channel and received the events taken so far, in the
\* order they were taken.
RECURSIVE drain(_)
drain(d0) ==
    Bind(d0, LAMBDA d :
        IF d.queue = <<>> THEN d
        ELSE drain([stats |-> apply_event(d.stats, Head(d.queue)),
                    received |-> Append(d.received, Head(d.queue)),
                    queue |-> Tail(d.queue)]))

\* process_events with the blocking `receiver.recv()` for try_recv: the
\* events are handled and the call waits for a next one, which no one
\* sends.
ProcessEvents_blocking ==
    /\ pc = "events"
    /\ \E d \in {drain([stats |-> stats, received |-> <<>>,
                         queue |-> events])} :
        /\ stats' = d.stats
        /\ events' = d.queue
        /\ log' = [log EXCEPT !.received = @ \o d.received]
    /\ pc' = "events"
    /\ UNCHANGED <<gen, query, cells, visibility, station, robots, idx,
                   tick0, last_call>>

\* Lines 180-182: drain the channel, count the step.
ProcessEvents ==
    /\ pc = "events"
    /\ \E d \in {drain([stats |-> stats, received |-> <<>>,
                         queue |-> events])} :
        /\ stats' = [d.stats EXCEPT !.simulation_step = @ + 1]
        /\ events' = d.queue
        /\ log' = [log EXCEPT !.received = d.received, !.drains = @ + 1]
    /\ pc' = "fade"
    /\ UNCHANGED <<gen, query, cells, visibility, station, robots, idx,
                   tick0, last_call>>

Next ==
    \/ FadeVisibility
    \/ RobotTurn
    \/ DepositPhase
    \/ SpawnPhase
    \/ ProcessEvents

Spec == Init /\ [][Next]_vars

\* Simulation::update is sequential code: once it is called (the fade
\* step), each of its statements runs when control reaches it. Nothing
\* makes the caller call it again.
InsideUpdate == RobotTurn \/ DepositPhase \/ SpawnPhase \/ ProcessEvents

SpecTick == Spec /\ WF_vars(InsideUpdate)

\* ------------------------------------------------- the Station alone
\* The Station driven through its public methods: add_energy,
\* add_minerals, add_scientific_data and try_create_robot, called in any
\* order with any amounts (storage capped at MaxStorage, the population
\* at MaxRobots).
StationInit ==
    /\ Init
    /\ cells = scenario_cells(ScenarioA)

StationAddEnergy ==
    \E amount \in 1 .. MaxAmount :
        /\ station.energy_storage + amount <= MaxStorage
        /\ station' = add_energy(station, amount)
        /\ last_call' = [last_call EXCEPT !.fresh = FALSE]
        /\ UNCHANGED <<gen, query, log, cells, visibility, robots, events,
                       stats, pc, idx, tick0>>

StationAddMinerals ==
    \E amount \in 1 .. MaxAmount :
        /\ station.minerals_storage + amount <= MaxStorage
        /\ station' = add_minerals(station, amount)
        /\ last_call' = [last_call EXCEPT !.fresh = FALSE]
        /\ UNCHANGED <<gen, query, log, cells, visibility, robots, events,
                       stats, pc, idx, tick0>>

StationAddScientificData ==
    \E amount \in 1 .. MaxAmount :
        /\ station.scientific_data_count + amount <= MaxStorage
        /\ station' = add_scientific_data(station, amount)
        /\ last_call' = [last_call EXCEPT !.fresh = FALSE]
        /\ UNCHANGED <<gen, query, log, cells, visibility, robots, events,
                       stats, pc, idx, tick0>>

StationTryCreateRobot ==
    /\ station.robot_counter < MaxRobots
    /\ \E res \in {try_create_robot(station)} :
       /\ station' = res.station
       /\ last_call' = record_call(last_call, res.robot)
    /\ UNCHANGED <<gen, query, log, cells, visibility, robots, events,
                   stats, pc, idx, tick0>>

StationNext ==
    \/ StationAddEnergy
    \/ StationAddMinerals
    \/ StationAddScientificData
    \/ StationTryCreateRobot

SpecStation == StationInit /\ [][StationNext]_vars

\* ---------------------------------------------------------- Map::new
\* Map::new run step by step on (Width, Height, seed), and run a second
\* time on the same configuration once it has returned.
Seeds == {42, 0}

GenInit ==
    /\ cells = empty_cells
    /\ visibility = initial_visibility
    /\ station = Station_new
    /\ robots = initial_robots
    /\ events = <<>>
    /\ stats = SimulationStats_default
    /\ pc = "fade"
    /\ idx = 0
    /\ tick0 = [robots |-> initial_robots, station |-> Station_new,
               cells |-> cells]
    /\ last_call = no_call
    /\ log = no_log
    /\ query = no_query
    /\ \E seed \in Seeds :
          gen = [pc |-> "terrain", seed |-> seed, left |-> 0, run |-> 1,
                 first |-> <<>>, draws |-> corner_draws, ticks |-> 0]

sim_vars == <<visibility, station, robots, events, stats, pc, idx, tick0,
              last_call, log, query>>

\* generate_terrain up to the call of ensure_traversable (lines 47-88).
GenerateTerrain ==
    /\ gen.pc = "terrain"
    /\ cells' = smooth_rounds(noise_pass(gen.seed), iterations)
    /\ gen' = [gen EXCEPT !.pc = "paths", !.left = NbPaths]
    /\ UNCHANGED sim_vars

\* One round of the loop of ensure_traversable (lines 125-132).
CarvePath ==
    /\ gen.pc = "paths"
    /\ gen.left > 0
    /\ \E start \in gen.draws, end \in gen.draws :
          cells' = create_path(cells, start[1], start[2], end[1], end[2])
    /\ gen' = [gen EXCEPT !.left = @ - 1]
    /\ UNCHANGED sim_vars

\* Line 39, once ensure_traversable has returned.
ClearBaseArea ==
    /\ gen.pc = "paths"
    /\ gen.left = 0
    /\ cells' = clear_base_area(cells)
    /\ gen' = [gen EXCEPT !.pc = "energy", !.left = NbEnergy]
    /\ UNCHANGED sim_vars

\* The loop counter after one round of a placement loop: after the last
\* round the next loop, with its own count, begins.
round_done(g, next_phase, next_left) ==
    IF g.left > 1
    THEN [g EXCEPT !.left = @ - 1]
    ELSE [g EXCEPT !.pc = next_phase, !.left = next_left]

\* One round of `for _ in 0..nb_energy` (lines 212-221).
PlaceEnergy ==
    /\ gen.pc = "energy"
    /\ cells' \in place_one(cells, "Energy", tries, gen.draws)
    /\ gen' = round_done(gen, "minerals", NbMinerals)
    /\ UNCHANGED sim_vars

\* One round of `for _ in 0..nb_minerals` (lines 224-233).
PlaceMineral ==
    /\ gen.pc = "minerals"
    /\ cells' \in place_one(cells, "Mineral", tries, gen.draws)
    /\ gen' = round_done(gen, "sites", NbSites)
    /\ UNCHANGED sim_vars

\* One round of `for _ in 0..nb_sites` (lines 236-245).
PlaceSite ==
    /\ gen.pc = "sites"
    /\ cells' \in place_one(cells, "ScientificSite", tries, gen.draws)
    /\ gen' = round_done(gen, "built", 0)
    /\ UNCHANGED sim_vars

\* Map::new is called again with the same MapConfig.
GenerateAgain ==
    /\ gen.pc = "built"
    /\ gen.run = 1
    /\ cells' = empty_cells
    /\ gen' = [gen EXCEPT !.pc = "terrain", !.run = 2, !.first = cells]
    /\ UNCHANGED sim_vars

GenNext ==
    \/ GenerateTerrain
    \/ CarvePath
    \/ ClearBaseArea
    \/ PlaceEnergy
    \/ PlaceMineral
    \/ PlaceSite
    \/ GenerateAgain

SpecGen == GenInit /\ [][GenNext]_vars

\* ------------------------------------------- Map::new, then the ticks
\* Simulation::new with Map::new run step by step, followed by MapTicks
\* calls of Simulation::update on the map it built.
MapInit ==
    /\ cells = empty_cells
    /\ visibility = initial_visibility
    /\ station = Station_new
    /\ robots = initial_robots
    /\ events = <<>>
    /\ stats = SimulationStats_default
    /\ pc = "fade"
    /\ idx = 0
    /\ tick0 = [robots |-> initial_robots, station |-> Station_new,
               cells |-> cells]
    /\ last_call = no_call
    /\ log = no_log
    /\ query = no_query
    /\ \E seed \in Seeds :
          gen = [pc |-> "terrain", seed |-> seed, left |-> 0, run |-> 1,
                 first |-> <<>>, draws |-> corner_and_center_draws,
                 ticks |-> MapTicks]

MapNext ==
    \/ GenerateTerrain
    \/ CarvePath
    \/ ClearBaseArea
    \/ PlaceEnergy
    \/ PlaceMineral
    \/ PlaceSite
    \/ FadeVisibility
    \/ RobotTurn
    \/ DepositPhase
    \/ SpawnPhase
    \/ ProcessEvents

SpecMap == MapInit /\ [][MapNext]_vars

\* ------------------------------------------------------- find_path alone
\* find_path called once on a grid, for any start and goal of the grid.
\* The grids: no Obstacle, or a wall on the column east of the centre,
\* complete or with one gap (in the top, the middle or the bottom row),
\* or a ring of Obstacles around the corner (0, 0).
wall_column == {p \in Pos : p[1] = center_x + 1}
corner_ring == {<<1, 0>>, <<0, 1>>}
gap_rows == {0, center_y, Height - 1}
walls ==
    {{}} \cup {wall_column \ gap :
                 gap \in {{}} \cup {{<<center_x + 1, y>>} : y \in gap_rows}}

grid_with(obstacles) ==
    [p \in Pos |-> IF p \in obstacles THEN "Obstacle" ELSE "Empty"]

PathInit ==
    /\ \E obstacles \in walls \cup {corner_ring} :
          cells = grid_with(obstacles)
    /\ visibility = initial_visibility
    /\ station = Station_new
    /\ robots = initial_robots
    /\ events = <<>>
    /\ stats = SimulationStats_default
    /\ pc = "fade"
    /\ idx = 0
    /\ tick0 = [robots |-> initial_robots, station |-> Station_new,
               cells |-> cells]
    /\ last_call = no_call
    /\ gen = map_built
    /\ log = no_log
    /\ query = no_query

FindPath ==
    /\ ~query.called
    /\ \E start \in Pos, goal \in Pos :
          query' = [called |-> TRUE, start |-> start, goal |-> goal,
                    path |-> find_path(cells, start, goal)]
    /\ UNCHANGED <<cells, visibility, station, robots, events, stats, pc,
                   idx, tick0, last_call, gen, log>>

PathNext == FindPath

SpecPath == PathInit /\ [][PathNext]_vars

\* ------------------------------------------- the explorer's arm alone
\* The arm of Simulation::update for a robot with Exploration that
\* carries nothing (lines 108-114 and 141-143), run once on a map, a
\* visibility and a robot position drawn from bounded sets. The
\* visibilities: every cell Explored, or every cell Visible, but for the
\* Hidden cells, which are none, one cell, or the west column.
hidden_sets ==
    {{}} \cup {{p} : p \in Pos} \cup {{p \in Pos : p[1] = 0}}

visibility_with(hidden, rest) ==
    [p \in Pos |-> IF p \in hidden THEN "Hidden" ELSE rest]

SearchInit ==
    /\ \E sc \in Scenarios : cells = scenario_cells(sc)
    /\ \E hidden \in hidden_sets, rest \in {"Explored", "Visible"} :
          visibility = visibility_with(hidden, rest)
    /\ station = Station_new
    /\ robots = initial_robots
    /\ events = <<>>
    /\ stats = SimulationStats_default
    /\ pc = "search"
    /\ idx = 0
    /\ tick0 = [robots |-> initial_robots, station |-> Station_new,
               cells |-> cells]
    /\ last_call = no_call
    /\ gen = map_built
    /\ log = no_log
    /\ query = no_query

\* The arm run for a robot at `start`: the target found in `goal`, the
\* position the robot has after its move in `path`.
explored_from(start, moved) ==
    /\ moved # Hung
    /\ query' = [called |-> TRUE, start |-> start,
                 goal |-> find_unexplored_area(start[1], start[2],
                                               cells, visibility),
                 path |-> <<(<<moved.x, moved.y>>)>>]

ExploreFrom ==
    /\ pc = "search"
    /\ ~query.called
    /\ \E start \in {p \in Pos : cells[p] # "Obstacle"} :
       \E r \in {Robot_new(0, start[1], start[2], <<"Exploration">>)} :
       \E sm \in {specialized_step(r, cells, visibility)} :
          IF sm.specialized_move
          THEN explored_from(start, sm.robot)
          ELSE \E dx \in -1 .. 1, dy \in -1 .. 1 :
                  explored_from(start, random_move(r, cells, dx, dy))
    /\ UNCHANGED <<cells, visibility, station, robots, events, stats, pc,
                   idx, tick0, last_call, gen, log>>

\* The ticks of Spec, and the explorer's arm on the drawn inputs.
ExploreInit == Init \/ SearchInit

ExploreNext == Next \/ ExploreFrom

SpecExplore == ExploreInit /\ [][ExploreNext]_vars

\* ------------------------------------------------- create_path alone
\* Map::create_path called once, on a terrain generate_terrain has
\* smoothed or on a grid of Obstacles alone, between two cells of the map.
carve_grids ==
    {smooth_rounds(noise_pass(seed), iterations) : seed \in Seeds}
        \cup {[p \in Pos |-> "Obstacle"]}

CarveInit ==
    /\ cells \in carve_grids
    /\ visibility = initial_visibility
    /\ station = Station_new
    /\ robots = initial_robots
    /\ events = <<>>
    /\ stats = SimulationStats_default
    /\ pc = "carve"
    /\ idx = 0
    /\ tick0 = [robots |-> initial_robots, station |-> Station_new,
               cells |-> cells]
    /\ last_call = no_call
    /\ gen = map_built
    /\ log = no_log
    /\ query = no_query

\* The call: its start in `start`, its end in `goal`.
CreatePath ==
    /\ pc = "carve"
    /\ ~query.called
    /\ \E start \in Pos, end \in Pos :
          /\ cells' = create_path(cells, start[1], start[2], end[1], end[2])
          /\ query' = [called |-> TRUE, start |-> start, goal |-> end,
                       path |-> <<>>]
    /\ UNCHANGED <<visibility, station, robots, events, stats, pc, idx,
                   tick0, last_call, gen, log>>

CarveNext == CreatePath

SpecCarve == CarveInit /\ [][CarveNext]_vars

\* ------------------------------------------------ rosters of any modules
\* Robot::new takes any Vec<RobotModule> (robot/mod.rs:16-24, 33-44, "un
\* robot peut avoir plusieurs modules"): the rosters below are the one of
\* Simulation::new and rosters of robots with several modules, each built
\* by Robot::new at the map centre.
versatile_robots ==
    << Robot_new(0, center_x, center_y,
                 <<"Exploration", "Drill", "EnergyCollector">>) >>

\* A Mineral next to a ScientificSite, west of the base: a robot that has
\* drilled the Mineral walks home over the site.
ScenarioD ==
    [obstacles |-> {<<-4, 0>>},
     energy |-> {},
     minerals |-> {<<-2, -1>>},
     sites |-> {<<-2, 0>>}]

RosterScenarios == Scenarios \cup {ScenarioD}

\* The runs: the roster of Simulation::new on the scenarios of Spec, the
\* robot with every module on these and on ScenarioD.
roster_runs ==
    {<<initial_robots, sc>> : sc \in Scenarios}
        \cup {<<versatile_robots, sc>> : sc \in RosterScenarios}

\* Simulation::new with the roster drawn from rosters.
RosterInit ==
    /\ \E run \in roster_runs :
          /\ robots = run[1]
          /\ cells = scenario_cells(run[2])
    /\ visibility = initial_visibility
    /\ station = Station_new
    /\ events = <<>>
    /\ stats = SimulationStats_default
    /\ pc = "fade"
    /\ idx = 0
    /\ tick0 = [robots |-> robots, station |-> Station_new, cells |-> cells]
    /\ last_call = no_call
    /\ gen = map_built
    /\ log = no_log
    /\ query = no_query

SpecRoster == RosterInit /\ [][Next]_vars

\* ============================================================ properties
\* A step that is a call of try_create_robot, and the Option it returns.
IsCall == last_call'.seq # last_call.seq
Returned == last_call'.robot

storages(st) ==
    <<st.energy_storage, st.minerals_storage, st.scientific_data_count>>

\* The Station on which the latest call, a successful one, was made: the
\* payment and the counting of the new robot undone.
before_success ==
    LET m == last_call.robot.modules[1] IN
    [station EXCEPT
        !.energy_storage = @ + 1,
        !.minerals_storage = @ + 1,
        !.scientific_data_count = @ + 1,
        !.robot_counter = @ - 1,
        !.explorer_count = IF m = "Exploration" THEN @ - 1 ELSE @,
        !.driller_count = IF m = "Drill" THEN @ - 1 ELSE @,
        !.energy_collector_count = IF m = "EnergyCollector" THEN @ - 1 ELSE @]

fresh_success ==
    last_call.called /\ last_call.fresh /\ last_call.robot # NoRobot

\* C5: try_create_robot returns a robot iff the three storages are all at
\* least 1; a successful call takes exactly 1 from each storage and
\* returns one robot; from (1,1,1) the call succeeds and leaves (0,0,0),
\* the call right after it returns no robot; no storage goes below zero.
C5_SpawnCost ==
    [][IsCall =>
        /\ (Returned # NoRobot) <=>
                (/\ station.energy_storage >= 1
                 /\ station.minerals_storage >= 1
                 /\ station.scientific_data_count >= 1)
        /\ Returned # NoRobot =>
                /\ station'.energy_storage = station.energy_storage - 1
                /\ station'.minerals_storage = station.minerals_storage - 1
                /\ station'.scientific_data_count
                        = station.scientific_data_count - 1
                /\ Returned.id = station.robot_counter
                /\ Len(Returned.modules) = 1
        /\ storages(station) = <<1, 1, 1>> =>
                Returned # NoRobot /\ storages(station') = <<0, 0, 0>>
        /\ (last_call'.after_success /\ storages(station) = <<0, 0, 0>>) =>
                Returned = NoRobot
        /\ \A k \in 1 .. 3 : storages(station')[k] >= 0
    ]_vars

\* The second of two immediate calls that began at (1,1,1).
C5_Witness ==
    /\ last_call.called /\ last_call.fresh /\ last_call.after_success
    /\ last_call.robot = NoRobot
    /\ storages(station) = <<0, 0, 0>>

\* C6: a call made while some storage is below the cost of 1 returns
\* None and leaves the Station as it was: storages, robot_counter and the
\* three counts.
C6_FailureKeepsStation ==
    [][(IsCall /\ \E k \in 1 .. 3 : storages(station)[k] < 1) =>
            Returned = NoRobot /\ station' = station]_vars

\* A refused call with only the energy missing.
C6_Witness ==
    /\ last_call.called /\ last_call.fresh /\ ~last_call.after_success
    /\ last_call.robot = NoRobot
    /\ station.energy_storage = 0
    /\ station.minerals_storage >= 1
    /\ station.scientific_data_count >= 1

\* The adjusted deficits as single-precision values, by capability.
f32_deficit(st) ==
    LET d == adjusted_deficits(st) IN
    [Exploration |-> d.explorer, Drill |-> d.driller,
     EnergyCollector |-> d.energy]

\* The place of a capability in the order Exploration, Drill,
\* EnergyCollector.
rank(m) ==
    CASE m = "Exploration" -> 1 [] m = "Drill" -> 2
      [] m = "EnergyCollector" -> 3

tied_for_maximum(d) ==
    {m \in RobotModule : \A o \in RobotModule : d[m] >= d[o]}

\* C7 as stated: among the capabilities tied for the largest adjusted
\* deficit, the earliest of Exploration, Drill, EnergyCollector is chosen.
C7_EarliestWins ==
    [][(IsCall /\ Returned # NoRobot) =>
        LET tied == tied_for_maximum(f32_deficit(station)) IN
        /\ Returned.modules[1] \in tied
        /\ \A o \in tied : rank(Returned.modules[1]) <= rank(o)]_vars

\* C7 amended: among the capabilities tied for the largest adjusted
\* deficit (as the Station computes it), the latest of Exploration, Drill,
\* EnergyCollector is chosen.
C7_LatestWins ==
    [][(IsCall /\ Returned # NoRobot) =>
        LET tied == tied_for_maximum(f32_deficit(station)) IN
        /\ Returned.modules[1] \in tied
        /\ \A o \in tied : rank(Returned.modules[1]) >= rank(o)]_vars

\* A robot chosen between Drill and EnergyCollector tied for the maximum.
C7_Witness ==
    /\ fresh_success
    /\ LET d == f32_deficit(before_success) IN
       /\ d.Drill = d.EnergyCollector
       /\ d.Drill > d.Exploration
       /\ last_call.robot.modules = <<"EnergyCollector">>

\* The adjusted deficits in exact arithmetic, each multiplied by
\* 10 * total: target share 4/10, 3/10, 3/10 minus the current share,
\* plus 2/10 when the associated storage is below 5.
exact_deficit(st) ==
    LET t == st.explorer_count + st.driller_count
                + st.energy_collector_count
    IN  [Exploration |-> 4 * t - 10 * st.explorer_count
                            + (IF st.scientific_data_count < 5
                               THEN 2 * t ELSE 0),
         Drill |-> 3 * t - 10 * st.driller_count
                      + (IF st.minerals_storage < 5 THEN 2 * t ELSE 0),
         EnergyCollector |-> 3 * t - 10 * st.energy_collector_count
                                + (IF st.energy_storage < 5
                                   THEN 2 * t ELSE 0)]

\* C8: the capability of a spawned robot has an adjusted deficit, on the
\* Station as it is when try_create_robot is called, at least that of
\* each other capability.
C8_LargestDeficit ==
    [][(IsCall /\ Returned # NoRobot) =>
        LET d == exact_deficit(station) IN
        \A o \in RobotModule : d[Returned.modules[1]] >= d[o]]_vars

\* A spawn decided by a storage of exactly 5 at the call: scientific data
\* is not boosted, and Exploration would win if it were.
C8_Witness ==
    /\ fresh_success
    /\ before_success.scientific_data_count = 5
    /\ last_call.robot.modules # <<"Exploration">>
    /\ LET d == exact_deficit(before_success)
           t == before_success.explorer_count + before_success.driller_count
                    + before_success.energy_collector_count
       IN  \A o \in RobotModule : d.Exploration + 2 * t > d[o]

\* ---------------------------------------------------- the simulation
\* A tick has ended: update has returned.
tick_ended == pc = "fade"

spawned_this_tick == Len(robots) > Len(tick0.robots)

\* An agent's carried counter plus the Station's, by resource type.
held(r, st) ==
    <<r.carried_energy + st.energy_storage,
      r.carried_minerals + st.minerals_storage,
      r.carried_scientific_data + st.scientific_data_count>>

\* C2 as stated: for each resource type and each agent, carried plus
\* Station counter at the end of a tick is at least what it was at the end
\* of the tick before.
C2_NeverDecreases ==
    tick_ended =>
        \A i \in 1 .. Len(tick0.robots) : \A k \in 1 .. 3 :
            held(robots[i], station)[k]
                >= held(tick0.robots[i], tick0.station)[k]

\* C2 amended: carried plus Station counter does not decrease over a tick
\* in which no agent is spawned, and decreases by at most the spawn cost
\* of 1 over a tick in which one is.
C2_DecreasesOnlyBySpawnCost ==
    tick_ended =>
        \A i \in 1 .. Len(tick0.robots) : \A k \in 1 .. 3 :
            held(robots[i], station)[k]
                >= held(tick0.robots[i], tick0.station)[k]
                    - (IF spawned_this_tick THEN 1 ELSE 0)

\* The end of a tick that spawned and left some sum one lower.
C2_Witness ==
    /\ tick_ended /\ spawned_this_tick
    /\ \E i \in 1 .. Len(tick0.robots) : \E k \in 1 .. 3 :
            held(robots[i], station)[k]
                = held(tick0.robots[i], tick0.station)[k] - 1

chebyshev_from_center(r) ==
    LET dx == abs_diff(r.x, Width \div 2)
        dy == abs_diff(r.y, Height \div 2)
    IN  IF dx >= dy THEN dx ELSE dy

carried(r) ==
    <<r.carried_energy, r.carried_minerals, r.carried_scientific_data>>

\* What the agents within distance 1 of the centre carry, by type.
RECURSIVE carried_near_center(_, _)
carried_near_center(rs, k) ==
    IF rs = <<>> THEN 0
    ELSE (IF chebyshev_from_center(Head(rs)) <= 1
          THEN carried(Head(rs))[k] ELSE 0)
            + carried_near_center(Tail(rs), k)

\* C3: in the deposit phase every agent within Chebyshev distance 1 of
\* the centre ends with its three carried counters at zero and the
\* Station counters grow by exactly what those agents carried; an agent
\* farther away keeps its counters and adds nothing.
C3_DepositPhase ==
    [][pc = "deposit" =>
        /\ Len(robots') = Len(robots)
        /\ \A i \in 1 .. Len(robots) :
              IF chebyshev_from_center(robots[i]) <= 1
              THEN carried(robots'[i]) = <<0, 0, 0>>
              ELSE carried(robots'[i]) = carried(robots[i])
        /\ \A k \in 1 .. 3 :
              storages(station')[k]
                  = storages(station)[k] + carried_near_center(robots, k)
    ]_vars

\* After a deposit phase in which minerals reached the Station while
\* another agent, away from the centre, kept what it carries.
C3_Witness ==
    /\ pc = "spawn"
    /\ station.minerals_storage > tick0.station.minerals_storage
    /\ \E i \in 1 .. Len(robots) :
          /\ chebyshev_from_center(robots[i]) > 1
          /\ carried(robots[i]) # <<0, 0, 0>>

\* C4: an agent without Drill never changes a Mineral cell nor gains
\* carried minerals; one without EnergyCollector never changes an Energy
\* cell nor gains carried energy; one without Exploration never gains
\* carried scientific data.
C4_CapabilityGating ==
    [][\A i \in 1 .. Len(robots) :
        LET r == robots[i]
            acts == pc = "robots" /\ idx = i
        IN  /\ ~contains(r.modules, "Drill") =>
                  /\ robots'[i].carried_minerals <= r.carried_minerals
                  /\ acts => \A p \in Pos :
                        cells[p] = "Mineral" => cells'[p] = "Mineral"
            /\ ~contains(r.modules, "EnergyCollector") =>
                  /\ robots'[i].carried_energy <= r.carried_energy
                  /\ acts => \A p \in Pos :
                        cells[p] = "Energy" => cells'[p] = "Energy"
            /\ ~contains(r.modules, "Exploration") =>
                  robots'[i].carried_scientific_data
                      <= r.carried_scientific_data
    ]_vars

\* An agent without Drill has had its turn and stands on a Mineral cell.
C4_Witness ==
    \E i \in 1 .. Len(robots) :
        /\ ~contains(robots[i].modules, "Drill")
        /\ cells[<<robots[i].x, robots[i].y>>] = "Mineral"
        /\ robots[i].carried_minerals = 0
        /\ pc = "deposit" \/ (pc = "robots" /\ idx > i)

\* C9: the ids of the agents in the list are pairwise distinct, and an
\* agent's id is greater than that of every agent created before it.
C9_IdsIncrease ==
    \A i, j \in 1 .. Len(robots) :
        i < j => robots[i].id < robots[j].id

\* Two agents have been spawned.
C9_Witness ==
    /\ Len(robots) >= 7
    /\ robots[6].id = 5 /\ robots[7].id = 6

\* C10: robots_created is the number of successful try_create_robot
\* calls; the list holds the initial 5 agents plus robots_created, at most
\* one more than when the tick began; a successful call, and nothing
\* else, lengthens the list by 1; no agent leaves the list or changes its
\* id or modules.
C10_Counts ==
    /\ stats.robots_created = last_call.successes
    /\ Len(robots) = 5 + stats.robots_created
    /\ Len(robots) <= Len(tick0.robots) + 1

C10_RobotsCreated ==
    [][/\ C10_Counts
       /\ C10_Counts'
       /\ Len(robots') = Len(robots)
              + (IF IsCall /\ Returned # NoRobot THEN 1 ELSE 0)
       /\ \A i \in 1 .. Len(robots) :
              /\ robots'[i].id = robots[i].id
              /\ robots'[i].modules = robots[i].modules
    ]_vars

\* The second spawn of a run has been counted.
C10_Witness ==
    /\ stats.robots_created = 2
    /\ last_call.successes = 2
    /\ Len(robots) = 7
    /\ spawned_this_tick

\* ------------------------------------------------------ map generation
\* C1: a second Map::new with the same width, height and seed returns the
\* cells the first returned, at every position.
C1_SameSeedSameCells ==
    (gen.pc = "built" /\ gen.run = 2) => cells = gen.first

\* ----------------------------------------------------------- find_path
\* The cells one cardinal step into a walkable in-bounds cell away from a
\* cell of from.
step_from(from) ==
    {q \in Pos : /\ cells[q] # "Obstacle"
                 /\ \E p \in from : manhattan_distance(p, q) = 1}

\* Breadth-first search from frontier, d steps from the start, seen being
\* the cells found so far: the number of steps to goal, -1 when no route
\* leads to it.
RECURSIVE breadth_first(_, _, _, _)
breadth_first(frontier0, seen0, goal, d) ==
    Bind(<<frontier0, seen0>>, LAMBDA a :
        LET frontier == a[1]
            seen == a[2]
        IN  IF goal \in frontier THEN d
            ELSE IF frontier = {} THEN -1
            ELSE breadth_first(step_from(frontier) \ seen,
                               seen \cup step_from(frontier), goal, d + 1))

walk_distance(start, goal) == breadth_first({start}, {start}, goal, 0)

path_returned == query.called /\ query.path # <<>>
none_returned == query.called /\ query.path = <<>>

\* C11: a path find_path returns starts at start, ends at goal, moves by
\* exactly one cardinal step between consecutive positions, and every
\* position after the start is an in-bounds walkable cell; for start = goal
\* the path is the single position start.
C11_PathWellFormed ==
    path_returned =>
        /\ query.path[1] = query.start
        /\ query.path[Len(query.path)] = query.goal
        /\ \A i \in 1 .. Len(query.path) - 1 :
              manhattan_distance(query.path[i], query.path[i + 1]) = 1
        /\ \A i \in 2 .. Len(query.path) :
              /\ query.path[i] \in Pos
              /\ cells[query.path[i]] # "Obstacle"
        /\ query.start = query.goal => query.path = <<query.start>>

\* A path that goes around an Obstacle: longer than the straight distance.
C11_Witness ==
    /\ path_returned
    /\ Len(query.path) - 1 > manhattan_distance(query.start, query.goal)
    /\ \E p \in Pos : cells[p] = "Obstacle"

\* C12: find_path returns None exactly when no sequence of cardinal steps
\* through walkable cells leads from start to goal; whenever such a route
\* exists it returns a path.
C12_NoneIffNoRoute ==
    query.called =>
        (query.path = <<>> <=> walk_distance(query.start, query.goal) = -1)

\* None for a walkable goal cut off from a walkable start.
C12_Witness ==
    /\ none_returned
    /\ cells[query.start] # "Obstacle"
    /\ cells[query.goal] # "Obstacle"

\* C13: the path find_path returns is a shortest one: its number of moves
\* is the breadth-first distance from start to goal over walkable cells
\* (the Manhattan distance on a grid with no Obstacle).
C13_ShortestPath ==
    path_returned =>
        /\ Len(query.path) - 1 = walk_distance(query.start, query.goal)
        /\ (\A p \in Pos : cells[p] # "Obstacle") =>
              Len(query.path) - 1
                  = manhattan_distance(query.start, query.goal)

\* A path through the single gap of a complete wall between start and goal.
C13_Witness ==
    /\ path_returned
    /\ Cardinality({p \in wall_column : cells[p] # "Obstacle"}) = 1
    /\ query.start[1] < center_x + 1
    /\ query.goal[1] > center_x + 1
    /\ Len(query.path) - 1 > manhattan_distance(query.start, query.goal)

\* ---------------------------------------------------------- visibility
\* C14: a cell that is Explored or Visible is never Hidden again, whatever
\* fade_visibility and update_visibility calls the ticks make.
C14_NeverHiddenAgain ==
    [][\A p \in Pos :
          visibility[p] # "Hidden" => visibility'[p] # "Hidden"]_vars

\* A cell Hidden after Map::new that a robot has seen and that has faded
\* to Explored.
C14_Witness ==
    \E p \in Pos : /\ initial_visibility[p] = "Hidden"
                    /\ visibility[p] = "Explored"

\* --------------------------------------------------------------- events
\* The sum of the amounts of the ResourceCollected events of a type in evs.
RECURSIVE amount_of(_, _)
amount_of(evs, type) ==
    IF evs = <<>> THEN 0
    ELSE (IF Head(evs).event = "ResourceCollected"
             /\ Head(evs).resource_type = type
          THEN Head(evs).amount ELSE 0) + amount_of(Tail(evs), type)

is_prefix(s, t) == Len(s) <= Len(t) /\ SubSeq(t, 1, Len(s)) = s

totals(st) ==
    [Energy |-> st.total_energy_collected,
     Mineral |-> st.total_minerals_collected,
     ScientificData |-> st.total_scientific_data_collected]

\* C15: the event log is drained exactly once per tick and in emission
\* order: outside the drain events are only appended and no total moves;
\* the drain receives the events of the tick in the order they were sent
\* and adds each amount to its total once; the tick ends with the log
\* empty, after one drain.
C15_DrainedOncePerTick ==
    [][/\ pc # "events" =>
            /\ is_prefix(events, events')
            /\ totals(stats') = totals(stats)
            /\ log'.drains = IF pc = "fade" THEN 0 ELSE log.drains
       /\ pc = "events" =>
            /\ log'.received = events
            /\ \A t \in DOMAIN totals(stats) :
                  totals(stats')[t] = totals(stats)[t] + amount_of(events, t)
       /\ pc' = "fade" => events' = <<>> /\ log'.drains = 1]_vars

\* A tick whose drain received a pickup and then a creation.
C15_Witness ==
    /\ tick_ended
    /\ \E i, j \in DOMAIN log.received :
          /\ i < j
          /\ log.received[i].event = "ResourceCollected"
          /\ log.received[j].event = "RobotCreated"

\* C16: the statistics come from the events sent and never decrease: when
\* a tick has ended each per-resource total is the sum of the amounts of
\* the ResourceCollected events of that type sent so far, and
\* robots_created is the number of RobotCreated events sent so far.
C16_StatsFromEvents ==
    [][/\ pc' = "fade" =>
            /\ \A t \in DOMAIN totals(stats') :
                  totals(stats')[t] = log'.sent[t]
            /\ stats'.robots_created = log'.sent.RobotCreated
       /\ \A t \in DOMAIN totals(stats) :
             totals(stats')[t] >= totals(stats)[t]
       /\ stats'.robots_created >= stats.robots_created]_vars

\* Ended ticks with Mineral and Energy pickups and a creation counted.
C16_Witness ==
    /\ tick_ended
    /\ stats.total_minerals_collected >= 1
    /\ stats.total_energy_collected >= 1
    /\ stats.robots_created >= 1
    /\ log.sent.Mineral = stats.total_minerals_collected

\* -------------------------------------------------------------- pickups
\* The carried counters of a robot, in the order energy, minerals, data.
counters(r) ==
    <<r.carried_energy, r.carried_minerals, r.carried_scientific_data>>

\* C20: a pickup raises exactly one carried counter of the robot by
\* exactly 1, turns the robot's cell to Empty when it was Energy or
\* Mineral and leaves a ScientificSite in place; no other cell changes in
\* a tick: a cell changes only from Energy or Mineral to Empty, at the
\* position of the robot that picked it up.
C20_PickupEffect ==
    [][LET acting == pc = "robots"
           picked == acting /\ Len(events') > Len(events)
           at == <<robots'[idx].x, robots'[idx].y>>
       IN  /\ \A p \in Pos :
                 cells'[p] # cells[p] =>
                    /\ picked /\ p = at
                    /\ cells[p] \in {"Energy", "Mineral"}
                    /\ cells'[p] = "Empty"
           /\ picked =>
                 /\ \E k \in 1 .. 3 :
                       /\ counters(robots'[idx])[k]
                              = counters(robots[idx])[k] + 1
                       /\ \A j \in (1 .. 3) \ {k} :
                             counters(robots'[idx])[j]
                                = counters(robots[idx])[j]
                 /\ cells[at] \in {"Energy", "Mineral", "ScientificSite"}
                 /\ cells[at] \in {"Energy", "Mineral"}
                       => cells'[at] = "Empty"
                 /\ cells[at] = "ScientificSite"
                       => cells'[at] = "ScientificSite"
           /\ (acting /\ ~picked) =>
                 counters(robots'[idx]) = counters(robots[idx])]_vars

\* A robot holding data on the ScientificSite it took it from, and a
\* robot holding a mineral on the emptied cell it took it from.
C20_Witness ==
    /\ \E i \in DOMAIN robots :
          /\ robots[i].carried_scientific_data >= 1
          /\ cells[<<robots[i].x, robots[i].y>>] = "ScientificSite"
    /\ \E i \in DOMAIN robots, sc \in Scenarios :
          /\ robots[i].carried_minerals >= 1
          /\ cells[<<robots[i].x, robots[i].y>>] = "Empty"
          /\ scenario_cells(sc)[<<robots[i].x, robots[i].y>>] = "Mineral"

\* ---------------------------------------------------------------- ticks
\* C19: a tick runs to completion: a call of Simulation::update in
\* progress, every find_path it triggers and the drain included, comes to
\* its end (pc = "fade"); simulation_step keeps its value while the call
\* is in progress and is one above it at the step that ends the call.
C19_TickCompletes ==
    /\ []<>(pc = "fade")
    /\ [][stats'.simulation_step =
             IF pc # "fade" /\ pc' = "fade"
             THEN stats.simulation_step + 1
             ELSE stats.simulation_step]_vars

\* The last tick ended, after robots walked away from the base along the
\* paths found and events were drained.
C19_Witness ==
    /\ tick_ended
    /\ stats.simulation_step = MaxTicks
    /\ log.drains = 1
    /\ log.received # <<>>
    /\ \E i \in DOMAIN robots :
          chebyshev_from_center(robots[i]) > 1

\* ------------------------------------------------------- generated maps
\* The base-adjacent region: the cells within Chebyshev distance 1 of the
\* map centre.
base_area ==
    {p \in Pos : /\ abs_diff(p[1], center_x) <= 1
                 /\ abs_diff(p[2], center_y) <= 1}

\* C17: on a map Map::new has built, every cell within Chebyshev distance
\* 1 of the centre is Empty, whatever the noise, the smoothing and the
\* carving did, and it is still Empty in every state the ticks reach.
C17_BaseAreaEmpty ==
    gen.pc = "built" => \A p \in base_area : cells[p] = "Empty"

\* The seeds whose terrain, smoothed, has an Obstacle in the base area.
seeds_with_obstructed_base ==
    {seed \in Seeds :
        \E p \in base_area :
            smooth_rounds(noise_pass(seed), iterations)[p] = "Obstacle"}

\* A tick has ended on a built map whose smoothed terrain had an Obstacle
\* in the base area and on which a resource was placed.
C17_Witness ==
    /\ gen.pc = "built"
    /\ gen.seed \in seeds_with_obstructed_base
    /\ tick_ended /\ stats.simulation_step >= 1
    /\ \E p \in Pos : cells[p] \in {"Energy", "Mineral", "ScientificSite"}

\* The cells a route of cardinal steps through walkable cells reaches
\* from the cells of found: those of found, then, round after round, the
\* cells one step from the ones found in the round before.
RECURSIVE reached_in_rounds(_, _)
reached_in_rounds(frontier0, found0) ==
    Bind(<<frontier0, found0>>, LAMBDA a :
        IF a[1] = {} THEN a[2]
        ELSE Bind(step_from(a[1]) \ a[2], LAMBDA new :
                reached_in_rounds(new, a[2] \cup new)))

reachable_from(found0) == reached_in_rounds(found0, found0)

\* C18: on a map Map::new has built, every cell that is not an Obstacle
\* is reachable from the base-adjacent region through walkable cells.
C18_AllReachable ==
    gen.pc = "built" =>
        \E reachable \in {reachable_from(base_area)} :
            \A p \in Pos : cells[p] # "Obstacle" => p \in reachable

\* ------------------------------------------------------- created robots
\* The robots pushed by Simulation::update since the tick began.
created_this_tick ==
    {robots[i] : i \in (Len(tick0.robots) + 1) .. Len(robots)}

\* C21: every robot the station creates is placed at the centre
\* (width / 2, height / 2) of the simulation's map, carries no resource
\* and has exactly one module.
C21_CreatedAtCenter ==
    /\ \A r \in created_this_tick \cup
                 (IF last_call.called /\ last_call.robot # NoRobot
                  THEN {last_call.robot} ELSE {}) :
          /\ r.x = Width \div 2
          /\ r.y = Height \div 2
          /\ counters(r) = <<0, 0, 0>>
          /\ Len(r.modules) = 1
          /\ r.modules[1] \in RobotModule
    /\ (pc = "events" /\ last_call.robot # NoRobot) =>
          created_this_tick = {last_call.robot}

\* A robot was created in this tick and stands in the robots list.
C21_Witness ==
    /\ pc = "events"
    /\ created_this_tick = {last_call.robot}
    /\ last_call.robot # NoRobot

\* ------------------------------------------------- sequential pickups
\* The module that collects a cell of the type.
module_for(type) == IF type = "Energy" THEN "EnergyCollector" ELSE "Drill"

\* The carried counter that a cell of the type raises.
carried_of(r, type) ==
    IF type = "Energy" THEN r.carried_energy ELSE r.carried_minerals

\* The robots of the list rs that stand on p with the module for the type.
equipped_at(rs, p, type) ==
    {i \in 1 .. Len(rs) :
        /\ <<rs[i].x, rs[i].y>> = p
        /\ contains(rs[i].modules, module_for(type))}

\* When every robot of the tick has moved and tried its pickup: on each
\* cell that was Energy or Mineral when the tick began, the first robot
\* of the list that stands there with the module has one unit more than
\* at the start of the tick, and every later one has what it had.
first_collects(rs, rs0, cs0) ==
    \A p \in Pos :
        (cs0[p] \in {"Energy", "Mineral"}
            /\ equipped_at(rs, p, cs0[p]) # {}) =>
        LET there == equipped_at(rs, p, cs0[p])
            first == CHOOSE i \in there : \A j \in there : i <= j
        IN  /\ carried_of(rs[first], cs0[p])
                  = carried_of(rs0[first], cs0[p]) + 1
            /\ \A j \in there \ {first} :
                  carried_of(rs[j], cs0[p]) = carried_of(rs0[j], cs0[p])

\* C22: robots are processed one after the other on the map as the
\* earlier ones left it: of the robots with the module that end their
\* move on one Energy or Mineral cell in a tick only the first processed
\* collects it; a collected cell is Empty and no cell becomes Energy or
\* Mineral again, so that each such cell is collected at most once.
C22_FirstCollects ==
    [][/\ pc' = "deposit" => first_collects(robots', tick0'.robots,
                                            tick0'.cells)
       /\ \A p \in Pos :
             /\ cells'[p] \in {"Energy", "Mineral"} => cells'[p] = cells[p]
             /\ (pc = "robots" /\ Len(events') > Len(events)
                   /\ p = <<robots'[idx].x, robots'[idx].y>>
                   /\ cells[p] \in {"Energy", "Mineral"}) =>
                      /\ cells'[p] = "Empty"
                      /\ \A j \in 1 .. (idx - 1) :
                            ~(j \in equipped_at(robots, p, cells[p]))
      ]_vars

\* Two robots with a Drill ended their move on one cell that held a
\* Mineral when the tick began: the first has it, the second has nothing.
C22_Witness ==
    /\ pc = "deposit"
    /\ \E p \in Pos : \E i, j \in equipped_at(robots, p, "Mineral") :
          /\ i < j
          /\ tick0.cells[p] = "Mineral"
          /\ cells[p] = "Empty"
          /\ robots[i].carried_minerals = 1
          /\ robots[j].carried_minerals = 0

\* --------------------------------------------------------- disclosure
\* The in-bounds cells at Euclidean distance <= radius of <<cx, cy>>.
disc(cx, cy, radius) ==
    {p \in Pos : (p[1] - cx) * (p[1] - cx) + (p[2] - cy) * (p[2] - cy)
                    <= radius * radius}

\* The visibility vis with exactly the cells of d made Visible.
disclosed(vis, d) == [p \in Pos |-> IF p \in d THEN "Visible" ELSE vis[p]]

\* C23: update_visibility(cx, cy, radius) makes Visible exactly the
\* in-bounds cells at squared distance <= radius^2 of (cx, cy), Hidden or
\* Explored before, and leaves every other cell's visibility as it was;
\* it lowers no cell and, where the call is all that touches the map (the
\* call at the base), changes no cell type. Checked on the two calls of
\* a tick: radius 2 at the robot about to move, radius 3 at the centre.
C23_DisclosesDisc ==
    [][/\ pc = "robots" =>
             visibility' = disclosed(visibility,
                               disc(robots[idx].x, robots[idx].y, 2))
       /\ pc = "deposit" =>
             /\ visibility' = disclosed(visibility,
                                  disc(center_x, center_y, 3))
             /\ cells' = cells
       /\ pc \in {"robots", "deposit"} =>
             \A p \in Pos :
                /\ visibility[p] = "Visible" => visibility'[p] = "Visible"
                /\ visibility[p] = "Explored" => visibility'[p] # "Hidden"
      ]_vars

\* After the call at the base in a later tick: the cell three columns
\* from the centre, Explored since the fade, is Visible again, and the
\* corner of the bounding box, outside the disc, is not.
C23_Witness ==
    /\ pc = "spawn"
    /\ stats.simulation_step >= 1
    /\ visibility[<<center_x + 3, center_y>>] = "Visible"
    /\ visibility[<<center_x + 3, center_y + 2>>] # "Visible"
    /\ \E p \in Pos : visibility[p] = "Explored"

\* ------------------------------------------------- order within a tick
\* What the robots of rs within Chebyshev distance 1 of the centre carry,
\* summed per counter.
RECURSIVE brought(_, _)
brought(rs, k) ==
    IF rs = <<>> THEN 0
    ELSE (IF chebyshev_from_center(Head(rs)) <= 1
          THEN counters(Head(rs))[k] ELSE 0) + brought(Tail(rs), k)

\* C24: in a tick the deposits run once every robot has moved and tried
\* its pickup, and the one spawn attempt runs after the deposits: what
\* the robots brought within Chebyshev distance 1 of the centre is in the
\* station when the spawn attempt is made, which succeeds iff the
\* storages so filled hold one unit each; the robot spawned is left as
\* created until the tick has ended.
C24_DepositThenSpawn ==
    [][/\ (pc' = "deposit" /\ pc # "deposit") =>
             pc = "robots" /\ idx = Len(robots)
       /\ (pc' = "spawn" /\ pc # "spawn") => pc = "deposit"
       /\ pc = "deposit" =>
             /\ \A k \in 1 .. 3 :
                   storages(station')[k]
                       = storages(station)[k] + brought(robots, k)
             /\ Len(robots') = Len(robots)
             /\ \A i \in 1 .. Len(robots) :
                   /\ <<robots'[i].x, robots'[i].y>>
                         = <<robots[i].x, robots[i].y>>
                   /\ counters(robots'[i])
                         = IF chebyshev_from_center(robots[i]) <= 1
                           THEN <<0, 0, 0>> ELSE counters(robots[i])
       /\ pc = "spawn" =>
             /\ Len(robots) = Len(tick0.robots)
             /\ \A k \in 1 .. 3 :
                   storages(station)[k]
                       >= storages(tick0.station)[k]
             /\ Len(robots') = Len(robots) + 1
                   <=> \A k \in 1 .. 3 : storages(station)[k] >= 1
             /\ Len(robots') \in {Len(robots), Len(robots) + 1}
       /\ pc \in {"spawn", "events"} =>
             /\ \A i \in 1 .. Len(robots) : robots'[i] = robots[i]
             /\ cells' = cells
             /\ \A t \in {"Energy", "Mineral", "ScientificData"} :
                   log'.sent[t] = log.sent[t]
       /\ station' # station => pc \in {"deposit", "spawn"}
      ]_vars

\* A spawn paid by the deposits of its own tick: when the tick began one
\* storage was empty, and the new robot stands as created.
C24_Witness ==
    /\ pc = "events"
    /\ spawned_this_tick
    /\ \E k \in 1 .. 3 : storages(tick0.station)[k] = 0
    /\ robots[Len(robots)]
          = Robot_new(robots[Len(robots)].id, center_x, center_y,
                      robots[Len(robots)].modules)

\* --------------------------------------------------- fade and disclosure
\* The cells disclosed in the tick: within radius 2 of the position a
\* robot had when the tick began, which is where it stands when its turn
\* comes, or within radius 3 of the centre.
disclosed_in_tick ==
    disc(center_x, center_y, 3)
        \cup UNION {disc(tick0.robots[i].x, tick0.robots[i].y, 2) :
                        i \in 1 .. Len(tick0.robots)}

\* C25: the fade runs once, at the start of the tick: it turns every
\* Visible cell to Explored and leaves Hidden and Explored cells; no later
\* step of the tick lowers a cell; so when the tick has ended a cell is
\* Visible iff it is within radius 2 of the position of some robot when
\* it was processed or within radius 3 of the centre.
C25_VisibleIffDisclosed ==
    [][/\ pc = "fade" =>
             \A p \in Pos :
                visibility'[p] = IF visibility[p] = "Visible"
                                 THEN "Explored" ELSE visibility[p]
       /\ pc # "fade" =>
             \A p \in Pos :
                visibility'[p] # visibility[p] => visibility'[p] = "Visible"
       /\ (pc' = "fade" /\ pc # "fade") =>
             \A p \in Pos :
                visibility'[p] = "Visible" <=> p \in disclosed_in_tick'
      ]_vars

\* A tick has ended with a robot processed away from the base: a cell
\* out of the base's disc is Visible by that robot, and a cell disclosed
\* in an earlier tick is Explored.
C25_Witness ==
    /\ tick_ended
    /\ stats.simulation_step >= 2
    /\ \E p \in Pos \ disc(center_x, center_y, 3) : visibility[p] = "Visible"
    /\ \E p \in Pos : visibility[p] = "Explored"

\* ------------------------------------------------------- return to base
\* The position of a robot.
position(r) == <<r.x, r.y>>

\* The cell one greedy step from `from` toward `to`: each coordinate moved
\* by at most 1 toward the target's, kept inside the map.
greedy_cell(from, to) ==
    LET toward(a, b) == IF a < b THEN a + 1 ELSE IF a > b THEN a - 1 ELSE a
    IN  <<clamp(toward(from[1], to[1]), 0, Width - 1),
          clamp(toward(from[2], to[2]), 0, Height - 1)>>

\* The robot whose turn it is carries something and is farther than
\* Chebyshev distance 1 from the centre.
returning ==
    /\ pc = "robots"
    /\ counters(robots[idx]) # <<0, 0, 0>>
    /\ chebyshev_from_center(robots[idx]) > 1

\* C26: a robot that carries something and is farther than Chebyshev
\* distance 1 from the centre neither seeks nor wanders in its turn: when
\* a walkable route leads to the centre it moves one cardinal step onto a
\* walkable cell whose shortest 4-connected distance to the centre is one
\* less than before, and when none does it makes at most the greedy step
\* toward the centre.
C26_ReturnsToBase ==
    [][returning =>
         LET from == position(robots[idx])
             to == position(robots'[idx])
             center == <<center_x, center_y>>
         IN  Bind(walk_distance(from, center), LAMBDA before :
                IF before # -1
                THEN /\ manhattan_distance(from, to) = 1
                     /\ cells[to] # "Obstacle"
                     /\ walk_distance(to, center) = before - 1
                ELSE to \in {from, greedy_cell(from, center)})
      ]_vars

\* A robot that began the tick loaded and two or more cells from the
\* centre has made its step toward it.
C26_Witness ==
    /\ pc = "deposit"
    /\ \E i \in 1 .. Len(tick0.robots) :
          /\ counters(tick0.robots[i]) # <<0, 0, 0>>
          /\ chebyshev_from_center(tick0.robots[i]) > 1
          /\ manhattan_distance(position(tick0.robots[i]),
                                position(robots[i])) = 1
          /\ chebyshev_from_center(robots[i]) = 1

\* ------------------------------------------------------ greedy fallback
\* The target move_towards is called with in the turn of robot r, vis
\* being the visibility its searches read; NoPos when it is not called.
sought(r, vis) ==
    IF counters(r) # <<0, 0, 0>>
    THEN IF chebyshev_from_center(r) > 1
         THEN <<center_x, center_y>> ELSE NoPos
    ELSE IF contains(r.modules, "Exploration")
         THEN find_unexplored_area(r.x, r.y, cells, vis)
    ELSE IF contains(r.modules, "Drill")
         THEN find_nearest_resource(r.x, r.y, cells, vis, "Mineral")
    ELSE find_nearest_resource(r.x, r.y, cells, vis, "Energy")

\* The robot whose turn it is has a target that no route leads to.
no_route ==
    /\ pc = "robots"
    /\ sought(robots[idx], visibility') # NoPos
    /\ walk_distance(position(robots[idx]),
                     sought(robots[idx], visibility')) = -1

\* The module that picks up from a cell of the type.
picks_up(r, type) ==
    \/ type = "Energy" /\ contains(r.modules, "EnergyCollector")
    \/ type = "Mineral" /\ contains(r.modules, "Drill")
    \/ type = "ScientificSite" /\ contains(r.modules, "Exploration")

\* C27: when no route leads to its target the robot makes one greedy
\* step, each coordinate moved by at most 1 toward the target: it moves
\* onto that cell if the cell is walkable and stays where it is if not;
\* its turn then goes on as any other, with the pickup on the cell it
\* stands on, and the tick with the next robot or the deposits.
C27_GreedyFallback ==
    [][no_route =>
         LET from == position(robots[idx])
             to == position(robots'[idx])
             step == greedy_cell(from, sought(robots[idx], visibility'))
         IN  /\ abs_diff(step[1], from[1]) <= 1
             /\ abs_diff(step[2], from[2]) <= 1
             /\ to = IF cells[step] # "Obstacle" THEN step ELSE from
             /\ Len(events') > Len(events)
                   <=> picks_up(robots[idx], cells[to])
             /\ pc' = IF idx < Len(robots) THEN "robots" ELSE "deposit"
      ]_vars

\* A Drill whose target, the walled-in Mineral, is two columns to the
\* west behind an Obstacle: its greedy step is not walkable and it has
\* kept its position in this tick; an earlier tick's greedy step brought
\* it there.
C27_Witness ==
    /\ pc = "deposit"
    /\ cells[<<0, center_y>>] = "Mineral"
    /\ cells[<<1, center_y>>] = "Obstacle"
    /\ visibility[<<0, center_y>>] # "Hidden"
    /\ walk_distance(<<2, center_y>>, <<0, center_y>>) = -1
    /\ \E i \in 1 .. Len(tick0.robots) :
          /\ contains(robots[i].modules, "Drill")
          /\ counters(tick0.robots[i]) = <<0, 0, 0>>
          /\ position(tick0.robots[i]) = <<2, center_y>>
          /\ position(robots[i]) = <<2, center_y>>
          /\ \A p \in Pos \ {<<0, center_y>>} : cells[p] # "Mineral"

\* ------------------------------------------------------------ wandering
\* The robot whose turn it is has nothing to return and no target: update
\* calls its random_move.
wandering ==
    /\ pc = "robots"
    /\ counters(robots[idx]) = <<0, 0, 0>>
    /\ sought(robots[idx], visibility') = NoPos

\* The fields of Robot in which a movement delta could be kept.
delta_memory(r) == DOMAIN r \ DOMAIN Robot_new(0, 0, 0, <<>>)

\* The move of a wandering step is that of some delta of
\* {-1, 0, 1} x {-1, 0, 1}, clamped into the map, made only onto a
\* walkable cell.
moved_by_some_delta ==
    LET from == position(robots[idx])
        to == position(robots'[idx])
    IN  \E dx \in -1 .. 1, dy \in -1 .. 1 :
            LET drawn == <<clamp(from[1] + dx, 0, Width - 1),
                           clamp(from[2] + dy, 0, Height - 1)>>
            IN  to = IF cells[drawn] # "Obstacle" THEN drawn ELSE from

squared_distance(p, q) ==
    (p[1] - q[1]) * (p[1] - q[1]) + (p[2] - q[2]) * (p[2] - q[2])

\* The robot whose turn it is carries nothing, has no Exploration and has
\* the module for the type.
seeking(type) ==
    /\ pc = "robots"
    /\ counters(robots[idx]) = <<0, 0, 0>>
    /\ ~contains(robots[idx].modules, "Exploration")
    /\ contains(robots[idx].modules, module_for(type))

\* The cells of the type that the robot's search can see: not Hidden
\* once the robot's own surroundings are disclosed.
seen_of(type) ==
    {p \in Pos : visibility'[p] # "Hidden" /\ cells[p] = type}

\* p is the cell of the set nearest to `from`, the first in row-major
\* order among the nearest.
nearest_first(p, set, from) ==
    /\ p \in set
    /\ \A q \in set :
          /\ squared_distance(p, from) <= squared_distance(q, from)
          /\ squared_distance(p, from) = squared_distance(q, from) =>
                p[2] < q[2] \/ (p[2] = q[2] /\ p[1] <= q[1])

\* The move from `from` to `to` is the one made toward target t: one step
\* of a shortest route when a route leads to t, the greedy step if not.
moved_toward(from, to, t) ==
    Bind(walk_distance(from, t), LAMBDA before :
        IF before = 0 THEN to = from
        ELSE IF before # -1
        THEN /\ manhattan_distance(from, to) = 1
             /\ walk_distance(to, t) = before - 1
        ELSE to = IF cells[greedy_cell(from, t)] # "Obstacle"
                  THEN greedy_cell(from, t) ELSE from)

\* C29: a robot that carries nothing, with a Drill (an EnergyCollector)
\* and no Exploration, targets the Mineral (Energy) cell that is not
\* Hidden and has the least squared distance to it among the cells of the
\* type that are not Hidden, the first in row-major order among equals,
\* and moves toward it; a Hidden cell is never its target; when no cell
\* of the type is seen it wanders.
C29_NearestSeenResource ==
    [][\A type \in {"Mineral", "Energy"} :
         seeking(type) =>
            LET from == position(robots[idx])
                to == position(robots'[idx])
                t == sought(robots[idx], visibility')
            IN  IF seen_of(type) = {}
                THEN t = NoPos /\ moved_by_some_delta
                ELSE /\ nearest_first(t, seen_of(type), from)
                     /\ visibility'[t] # "Hidden"
                     /\ moved_toward(from, to, t)
      ]_vars

\* A Drill for which two seen Minerals were at the same least distance
\* when the tick began has stepped nearer to the first of the two in
\* row-major order.
C29_Witness ==
    /\ pc \in {"robots", "deposit"}
    /\ \E i \in 1 .. Len(tick0.robots) :
          /\ i < idx \/ pc = "deposit"
          /\ contains(robots[i].modules, "Drill")
          /\ counters(tick0.robots[i]) = <<0, 0, 0>>
          /\ \E p, q \in Pos :
                /\ p # q
                /\ tick0.cells[p] = "Mineral" /\ tick0.cells[q] = "Mineral"
                /\ visibility[p] # "Hidden" /\ visibility[q] # "Hidden"
                /\ squared_distance(p, position(tick0.robots[i]))
                      = squared_distance(q, position(tick0.robots[i]))
                /\ \A m \in Pos \ {p, q} :
                      (tick0.cells[m] = "Mineral"
                          /\ visibility[m] # "Hidden") =>
                         squared_distance(m, position(tick0.robots[i]))
                            > squared_distance(p, position(tick0.robots[i]))
                /\ p[2] < q[2] \/ (p[2] = q[2] /\ p[1] < q[1])
                /\ position(robots[i]) # position(tick0.robots[i])
                /\ squared_distance(position(robots[i]), p)
                      < squared_distance(position(robots[i]), q)

\* --------------------------------------------------- exploration targets
\* The candidates of the rings of radius 3, 6 and 9 around `from`: the
\* cells from + o, kept inside the map, for the offsets o whose squared
\* length is between (radius - 2)^2 and radius^2.
ring_candidates(from) ==
    {<<clamp(from[1] + o[1], 0, Width - 1),
       clamp(from[2] + o[2], 0, Height - 1)>> :
        o \in {o \in (-9 .. 9) \X (-9 .. 9) :
                 \E radius \in {3, 6, 9} :
                    /\ o[1] * o[1] + o[2] * o[2]
                          >= (radius - 2) * (radius - 2)
                    /\ o[1] * o[1] + o[2] * o[2] <= radius * radius}}

\* The walkable candidates around `from` with visibility `wanted` in vis.
walkable_candidates(from, vis, wanted) ==
    {p \in ring_candidates(from) :
        vis[p] = wanted /\ cells[p] # "Obstacle"}

\* t is a target as claimed for a search from `from` under vis, and `to`
\* is where the robot is after it has moved toward t or, without a
\* target, wandered by some delta.
target_as_claimed(from, vis, t, to) ==
    /\ t # NoPos => /\ t \in Pos
                    /\ cells[t] # "Obstacle"
                    /\ moved_toward(from, to, t)
    /\ IF walkable_candidates(from, vis, "Hidden") # {}
       THEN t \in walkable_candidates(from, vis, "Hidden")
       ELSE IF walkable_candidates(from, vis, "Explored") # {}
       THEN t \in walkable_candidates(from, vis, "Explored")
       ELSE /\ t = NoPos
            /\ \E dx \in -1 .. 1, dy \in -1 .. 1 :
                  LET drawn == <<clamp(from[1] + dx, 0, Width - 1),
                                 clamp(from[2] + dy, 0, Height - 1)>>
                  IN  to = IF cells[drawn] # "Obstacle" THEN drawn ELSE from

\* The robot whose turn it is carries nothing and has Exploration.
exploring ==
    /\ pc = "robots"
    /\ counters(robots[idx]) = <<0, 0, 0>>
    /\ contains(robots[idx].modules, "Exploration")

\* C30: the target of a robot with Exploration that carries nothing is an
\* in-bounds walkable cell: a Hidden one whenever a ring of radius 3, 6 or
\* 9 around the robot has a walkable Hidden candidate, an Explored one
\* only when no ring has one, and none when no ring has a walkable Hidden
\* or Explored candidate, in which case the robot wanders; with a target
\* the robot moves toward it. Checked on the explorers' turns of the
\* ticks and on the arm run alone on the drawn maps and visibilities.
C30_ExplorationTarget ==
    /\ [][exploring =>
            target_as_claimed(position(robots[idx]), visibility',
                              sought(robots[idx], visibility'),
                              position(robots'[idx]))]_vars
    /\ [](query.called =>
            target_as_claimed(query.start, visibility, query.goal,
                              query.path[1]))

\* The search run where a Hidden walkable cell exists but is a candidate
\* of no ring: an Explored cell was returned.
C30_Witness ==
    /\ query.called
    /\ \E p \in Pos : visibility[p] = "Hidden" /\ cells[p] # "Obstacle"
    /\ walkable_candidates(query.start, visibility, "Hidden") = {}
    /\ query.goal # NoPos
    /\ visibility[query.goal] = "Explored"
    /\ query.path[1] # query.start

\* ---------------------------------------------------------- carved paths
\* The positions of the walk from `from` to `to`, each coordinate moved
\* by one toward the target's at every step: `from`, and the walk from
\* the next position on.
RECURSIVE walk_positions(_, _)
walk_positions(from, to) ==
    IF from = to THEN {from}
    ELSE {from} \cup walk_positions(greedy_cell(from, to), to)

\* The in-bounds cells within Chebyshev distance 1 of a position of ps.
around(ps) ==
    {q \in Pos : \E p \in ps : abs_diff(q[1], p[1]) <= 1
                                /\ abs_diff(q[2], p[2]) <= 1}

\* C31: once create_path has returned, every in-bounds cell within
\* Chebyshev distance 1 of every position of the walk, from the start
\* through the end, is Empty.
C31_WalkCleared ==
    (pc = "carve" /\ query.called) =>
        \A q \in around(walk_positions(query.start, query.goal)) :
            cells[q] = "Empty"

\* ------------------------------------------------------ placed resources
\* The resource a placement loop of place_resources writes.
placed_by(phase) ==
    IF phase = "energy" THEN "Energy"
    ELSE IF phase = "minerals" THEN "Mineral" ELSE "ScientificSite"

\* The number of cells of the type.
count_of(type) == Cardinality({p \in Pos : cells[p] = type})

on_edge(p) == p[1] \in {0, Width - 1} \/ p[2] \in {0, Height - 1}

\* C33: in every state of a built map every robot stands on a cell inside
\* the grid that is not an Obstacle, so the cell and visibility reads made
\* at a robot's position index inside the grid, on the edge and in the
\* corners as well.
C33_OnWalkableCells ==
    gen.pc = "built" =>
        \A i \in 1..Len(robots) :
            /\ position(robots[i]) \in Pos
            /\ cells[position(robots[i])] # "Obstacle"

\* A robot that started the tick on the map edge has moved, in its turn, to
\* another cell of the edge.
C33_Witness ==
    /\ pc = "robots"
    /\ last_call.called
    /\ \E i \in 1..Len(tick0.robots) :
          /\ i < idx
          /\ on_edge(position(tick0.robots[i]))
          /\ on_edge(position(robots[i]))
          /\ position(robots[i]) # position(tick0.robots[i])

\* ---- C34 ----
\* The resource a pickup on a cell of this type yields.
resource_of(cell) ==
    CASE cell = "Energy" -> "Energy"
      [] cell = "Mineral" -> "Mineral"
      [] cell = "ScientificSite" -> "ScientificData"
      [] OTHER -> "None"

\* The robot of this turn has picked something up and the event was sent.
reports_pickup == pc = "robots" /\ Len(events') = Len(events) + 1

\* C34: for every roster, of robots with any modules, the ResourceCollected
\* event sent for a pickup carries the resource of the cell the robot has
\* just picked up from, whatever the robot carried before.
C34_EventNamesPickedCell ==
    [][reports_pickup =>
         events'[Len(events')].resource_type =
             resource_of(cells[position(robots'[idx])])]_vars

\* ---- C35 ----
\* The cumulative total of SimulationStats for a resource type.
collected_total(type) ==
    CASE type = "Energy" -> stats.total_energy_collected
      [] type = "Mineral" -> stats.total_minerals_collected
      [] type = "ScientificData" -> stats.total_scientific_data_collected

\* The Station's counter for a resource type.
stored_of(type) ==
    CASE type = "Energy" -> station.energy_storage
      [] type = "Mineral" -> station.minerals_storage
      [] type = "ScientificData" -> station.scientific_data_count

\* A robot's carried counter for a resource type.
carried_units(r, type) ==
    CASE type = "Energy" -> r.carried_energy
      [] type = "Mineral" -> r.carried_minerals
      [] type = "ScientificData" -> r.carried_scientific_data

\* The units of this type all the robots from k on carry.
RECURSIVE carried_by_all(_, _)
carried_by_all(type, k) ==
    IF k > Len(robots) THEN 0
    ELSE carried_units(robots[k], type) + carried_by_all(type, k + 1)

\* C35: at the end of every tick, for each resource type, the collected
\* total is what the robots carry plus what the Station holds plus one
\* unit per robot spawned so far.
C35_Conservation ==
    tick_ended =>
        \A type \in {"Energy", "Mineral", "ScientificData"} :
            collected_total(type) =
                carried_by_all(type, 1) + stored_of(type)
                    + (Len(robots) - Len(initial_robots))

\* A tick ends with a robot spawned, a unit in the Station and a unit on
\* a robot.
C35_Witness ==
    /\ tick_ended
    /\ Len(robots) > Len(initial_robots)
    /\ \E type \in {"Energy", "Mineral", "ScientificData"} :
          stored_of(type) > 0
    /\ \E type \in {"Energy", "Mineral", "ScientificData"} :
          carried_by_all(type, 1) > 0

\* ---- C36 ----
\* The number of robots of the list that hold the module.
holders(module) ==
    Cardinality({i \in 1 .. Len(robots) : contains(robots[i].modules, module)})

\* C36: between two steps of update() taken as a whole, that is whenever
\* the robot returned by try_create_robot has been pushed, the Station's
\* three counts are the numbers of robots of the list holding Exploration,
\* Drill and EnergyCollector, and its next-id counter is the length of
\* the list.
C36_CountsMatchList ==
    /\ station.explorer_count = holders("Exploration")
    /\ station.driller_count = holders("Drill")
    /\ station.energy_collector_count = holders("EnergyCollector")
    /\ station.robot_counter = Len(robots)

\* Robots of two kinds have been spawned.
C36_Witness ==
    /\ Len(robots) >= Len(initial_robots) + 2
    /\ \E i, j \in Len(initial_robots) + 1 .. Len(robots) :
          robots[i].modules # robots[j].modules

\* ---- C37 ----
\* The shortest walkable 4-connected distance from a robot's cell to the
\* centre, -1 when no route leads there.
distance_home(r) == walk_distance(position(r), <<center_x, center_y>>)

\* Robot i began the tick loaded, on a cell with a route to the centre.
homebound(i) ==
    /\ i <= Len(tick0.robots)
    /\ counters(tick0.robots[i]) # <<0, 0, 0>>
    /\ distance_home(tick0.robots[i]) # -1

\* Robot i is within Chebyshev distance 1 of the centre and carries
\* nothing.
unloaded_at_base(i) ==
    /\ chebyshev_from_center(robots[i]) <= 1
    /\ counters(robots[i]) = <<0, 0, 0>>

\* Robot i is one cell nearer to the centre, by the shortest walkable
\* distance, than at the beginning of the tick, and still loaded.
one_nearer(i) ==
    /\ chebyshev_from_center(robots[i]) > 1
    /\ counters(robots[i]) # <<0, 0, 0>>
    /\ distance_home(robots[i]) = distance_home(tick0.robots[i]) - 1

\* Robot i, loaded at the beginning of the tick, has deposited or is one
\* cell nearer.
made_its_way(i) ==
    homebound(i) /\ (unloaded_at_base(i) \/ one_nearer(i))

\* C37: a robot that carries something on a cell with a walkable route to
\* the centre deposits within as many ticks as its shortest walkable
\* distance to the centre. Every tick that begins with such a robot
\* ends, and once its deposits are made the robot is either within
\* Chebyshev distance 1 of the centre with all its counters zeroed, or
\* still loaded and exactly one cell nearer; a distance of 1 is within
\* Chebyshev distance 1, so the distance d is used up after at most d - 1
\* ticks.
C37_DepositsWithinDistance ==
    /\ [](pc \in {"spawn", "events"} =>
            \A i \in 1 .. MaxRobots : homebound(i) => made_its_way(i))
    /\ \A i \in 1 .. MaxRobots :
          (pc = "robots" /\ homebound(i)) ~> (tick_ended /\ made_its_way(i))

\* A robot that began the tick loaded and away from the base has arrived
\* and its counters are zeroed.
C37_Witness ==
    /\ pc = "spawn"
    /\ \E i \in 1 .. MaxRobots :
          /\ homebound(i)
          /\ chebyshev_from_center(tick0.robots[i]) > 1
          /\ unloaded_at_base(i)
          /\ \E p \in Pos : cells[p] = "Obstacle"

\* ---- C38 ----
\* C38: when a tick has ended no robot stands on a Hidden cell: a robot
\* has moved at most one cell, diagonals included, from where the radius-2
\* disc was disclosed in its turn, and a robot spawned in the tick stands
\* at the centre of the radius-3 disc.
C38_RobotsOnDisclosedCells ==
    tick_ended =>
        \A i \in 1 .. Len(robots) :
            visibility[position(robots[i])] # "Hidden"

\* A tick has ended in which a robot made a diagonal step, to a cell
\* outside the base's disc.
C38_Witness ==
    /\ tick_ended
    /\ \E i \in 1 .. Len(tick0.robots) :
          /\ position(robots[i]) \notin disc(center_x, center_y, 3)
          /\ abs_diff(robots[i].x, tick0.robots[i].x) = 1
          /\ abs_diff(robots[i].y, tick0.robots[i].y) = 1

=============================================================================
